---- MODULE Spec2Model ----
(***************************************************************************)
(* A model of the ovrlog logging core (Logging.cpp, the _WIN32 build):     *)
(* RepeatedMessageManager (hashing, classification, polling), OutputWorker *)
(* (work queue, dispatch thread, Start/Stop/Flush, output plugins).        *)
(*                                                                         *)
(* The specifications share the variables:                                 *)
(*   SpecRMM     RepeatedMessageManager driven directly by HandleMessage   *)
(*               and Poll calls, with the output worker reduced to the     *)
(*               list of summaries Poll hands to it;                       *)
(*   SpecPrune   bursts of never-repeating messages between Poll calls;    *)
(*   SpecExc     the exception lists of RepeatedMessageManager;            *)
(*   SpecPlugins the output-plugin registry;                               *)
(*   Spec        the OutputWorker with its threads (a producer, a Flush    *)
(*               caller, the Start/Stop caller, the dispatch thread);      *)
(*   FairSpec    Spec with the fairness of a scheduler that lets every     *)
(*               thread that can run take its next step.                   *)
(*   SpecStartStop, SpecStartFail, SpecWake  Start and Stop in any order,  *)
(*               Start failing, the wake-up of the dispatch thread;        *)
(*   SpecConfig, SpecBoot  the Configurator and the channel registry, on a *)
(*               constructed worker and from the start of the process;     *)
(*   SpecLocks   the calls of the worker followed lock by lock;            *)
(*   SpecRegistry  the registry followed access by access;                 *)
(*   SpecDebugger  Write with all its arguments, with or without a         *)
(*               debugger attached;                                        *)
(*   SpecLinks   the links of the registry followed pointer by pointer.    *)
(***************************************************************************)
EXTENDS Integers, Sequences, FiniteSets, TLC

VARIABLES
    \* RepeatedMessageManager
    BusyInWrite,                           \* re-entrancy guard flag
    RecentMessageMap,                      \* hash -> [timeMs]
    RepeatedMessageMap,                    \* hash -> RepeatedMessage
    RepeatedMessageExceptionSet,           \* set of hashes
    RepeatedMessageSubsystemExceptionSet,  \* set of hashes
    now,                                   \* the clock (GetCurrentLogTime), ms of the day
    messagesToPrint,                       \* Poll's local vector, while Poll prints
    pollPc,                                \* where the running Poll is
    emitted,                               \* SpecRMM: the Write calls the last Poll made
    lastResult,                            \* SpecRMM: what the last HandleMessage call returned
    run,                                   \* history per hash, for the lifecycle properties
    \* OutputWorker
    Plugins,                               \* the registered output plugins
    WorkQueue,                             \* the list WorkQueueHead .. WorkQueueTail
    WorkQueueSize,
    WorkQueueOverrun,
    WorkQueueLock,                         \* the thread holding it across steps, or "none"
    WorkerWakeEvent,                       \* auto-reset event: signalled or not
    LoggingThread,                         \* LoggingThread.IsValid()
    Terminated,                            \* WorkerTerminator.IsTerminated()
    FlushEvent,                            \* the event of the running Flush call: signalled or not
    pc,                                    \* where each thread is
    batch,                                 \* ProcessQueuedMessages' local list (message)
    written,                               \* what the plugins were handed, in order
    fate,                                  \* history: what became of each Write call, in order
    sinceDetach,                           \* history: Write calls queued or dropped since the
                                           \* queue was last detached
    enqueued,                              \* history: the records Write added to the queue
    sentinelAt,                            \* history: Len(enqueued) when Flush added its sentinel
    stopMark,                              \* history: Len(fate) when the running Stop was called
    \* the plugin registry called directly
    added,                                 \* history per name: AddPlugin calls, the last plugin
    lastGet,                               \* history: the last GetPlugin call and its result
    \* the life of the dispatch thread
    dispatchThreads,                       \* the threads CreateThread started that have not ended
    startsIgnored,                         \* history: Start calls that found the thread valid
    afterStop,                             \* history: the worker as the last Stop left it
    \* the Configurator and the channel registry
    GlobalMinimumLogLevel,                 \* Configurator::GlobalMinimumLogLevel
    ChannelNodeHead,                       \* the list of registered channel nodes, head first
    ConfiguratorPlugin,                    \* Configurator::Plugin: null, or the levels it holds
    OutputWorkerInstValid,                 \* the flag of that name
    registering,                           \* per thread: the node it registers, the head it read
    \* the locks, where the calls are followed lock by lock
    held,                                  \* per thread: the locks it holds, in the order taken
    todo,                                  \* per thread: the steps left of the call it is in
    \* the debugger
    IsInDebugger,                          \* OutputWorker::IsInDebugger
    DbgViewLog,                            \* the lines given to OutputDebugStringA, in order
    \* the channel registry, pointer by pointer
    ChannelNodeHeadPointer,                \* the pointer ChannelNodeHead: a node, or "nullptr"
    ChannelNodeFields                      \* per node: its Next and Prev pointers, the life
                                           \* of its Channel

rmmVars == <<BusyInWrite, RecentMessageMap, RepeatedMessageMap,
             RepeatedMessageExceptionSet, RepeatedMessageSubsystemExceptionSet,
             now, messagesToPrint, pollPc, emitted, lastResult, run>>

workerVars == <<Plugins, WorkQueue, WorkQueueSize, WorkQueueOverrun, WorkQueueLock,
                WorkerWakeEvent, LoggingThread, Terminated, FlushEvent, pc, batch,
                written, fate, sinceDetach, enqueued, sentinelAt, stopMark>>

pluginVars == <<added, lastGet>>

lifecycleVars == <<dispatchThreads, startsIgnored, afterStop>>

registryVars == <<OutputWorkerInstValid, registering>>

lockVars == <<held, todo>>

debuggerVars == <<IsInDebugger, DbgViewLog>>

linkVars == <<ChannelNodeHeadPointer, ChannelNodeFields>>

configVars == <<GlobalMinimumLogLevel, ChannelNodeHead, ConfiguratorPlugin,
                registryVars, lockVars, debuggerVars, linkVars>>

vars == <<rmmVars, workerVars, pluginVars, lifecycleVars, configVars>>

-----------------------------------------------------------------------------
(* Configuration knobs. Their declarations (Logging_Library.h) are not in  *)
(* the sources; the values are scaled so that every branch is reached.     *)

messagePrefixLength == 2
printedRepeatCount == 1
maxDeferrableDetectionTimeMs == 2
maxDeferredMessages == 2
recentMessageCount == 1
WorkQueueLimit == 2

\* Milliseconds in a day, the rollover GetLogMillisecondTimeDifference assumes.
DayMs == 86400000

(* Bounds of the model.                                                    *)
MaxTime == 3          \* the clock runs from 0 to MaxTime (less than a day)
MaxRecent == 5        \* HandleMessage calls stop adding recent entries at this size
MaxOccurrences == 4   \* ... and stop counting for an entry at this many occurrences
BurstOccurrences == 1 \* the same for the entries of SpecPrune
ExcOccurrences == 2   \* the same for the entries of SpecExc
MaxPlugins == 6       \* the plugin objects of SpecPlugins
MaxAdds == 3          \* AddPlugin calls counted per name
MaxIgnoredStarts == 1 \* Start calls that find the thread valid
MaxChannels == 2 \* channels registered at a time
MaxWrites == 4        \* Write calls of the producer in Spec

-----------------------------------------------------------------------------
(* Message texts and subsystem names are C strings: sequences of character *)
(* codes. "abx" is longer than messagePrefixLength, "a" is shorter.         *)

RmmTexts == { <<97>>, <<97, 98, 120>> }
PruneTexts == { <<97>>, <<98>>, <<99>>, <<100>>, <<101>> }
ExcTexts == { <<97>>, <<97, 98, 120>> }
Subsystems == { <<75>>, <<76>> }
Levels == { "Info" }

Min(a, b) == IF a < b THEN a ELSE b
Max(a, b) == IF a < b THEN b ELSE a

RECURSIVE BitXor(_, _, _)
BitXor(a, b, n) ==
    IF n = 0 THEN 0
    ELSE (((a % 2) + (b % 2)) % 2) + 2 * BitXor(a \div 2, b \div 2, n - 1)

(* A PrefixHashType (uint32_t) value is kept as <<high 16 bits, low 16 bits>>. *)
HashBasis == << 33052, 40389 >>           \* 2166136261U = 0x811C9DC5

\* hash += (hash << 1) + (hash << 4) + (hash << 7) + (hash << 8) + (hash << 24),
\* i.e. hash * (403 + 2^24) modulo 2^32; then hash ^= c.
HashStep(h, c) ==
    LET lo403 == h[2] * 403
        lo    == lo403 % 65536
        hi    == ((h[1] * 403) + (lo403 \div 65536) + ((h[2] % 256) * 256)) % 65536
    IN  << hi, (lo - (lo % 256)) + BitXor(lo % 256, c, 8) >>

RECURSIVE HashFrom(_, _, _)
HashFrom(h, p, i) ==
    IF i > Len(p) \/ i > messagePrefixLength THEN h
    ELSE HashFrom(HashStep(h, p[i]), p, i + 1)

GetHash(p) == HashFrom(HashBasis, p, 1)

\* GetHash of the strings the model uses, computed once.
HashTable == [p \in RmmTexts \cup PruneTexts \cup Subsystems |-> GetHash(p)]
Hash(p) == HashTable[p]

\* A difference that never grows: no occurrence is ever outside the window.
GetLogMillisecondTimeDifference_NoElapse(begin, end) ==
    0

GetLogMillisecondTimeDifference(begin, end) ==
    IF end >= begin THEN end - begin ELSE DayMs + (end - begin)

-----------------------------------------------------------------------------
(* Functions as maps with erase and insert.                                *)

MapErase(m, K) == [k \in (DOMAIN m) \ K |-> m[k]]
MapPut(m, k, v) == [x \in (DOMAIN m) \cup {k} |-> IF x = k THEN v ELSE m[x]]
EmptyMap == [k \in {} |-> 0]

RepeatedMessage(subsystemName, messageLogLevel, stream, lastTimeMs) ==
    [ subsystemName |-> subsystemName, messageLogLevel |-> messageLogLevel,
      stream |-> stream, lastTimeMs |-> lastTimeMs,
      printedCount |-> 0, aggregatedCount |-> 0 ]

\* A HandleMessage that looks only at the message exception set.
InExceptionList_MessageOnly(prefixHash, subsystemNameHash) ==
    prefixHash \in RepeatedMessageExceptionSet

\* The two exception-list checks of HandleMessage.
InExceptionList(prefixHash, subsystemNameHash) ==
    \/ prefixHash \in RepeatedMessageExceptionSet
    \/ subsystemNameHash \in RepeatedMessageSubsystemExceptionSet

\* A HandleMessage that prints one repeat more before deferring.
PrintedBeforeDeferring_OneMore(repeatedMessage) ==
    repeatedMessage.printedCount <= printedRepeatCount

\* "We actually print the first few seemingly repeated messages before deferring them."
PrintedBeforeDeferring(repeatedMessage) ==
    repeatedMessage.printedCount < printedRepeatCount

\* A promotion that leaves the entry in the recent-message map.
EraseRecent_Kept(recent, prefixHash) ==
    recent

\* "No need to keep it in the RecentMessageMap any more, since it's now
\* classified as repeat."
EraseRecent(recent, prefixHash) ==
    MapErase(recent, {prefixHash})

(* HandleMessage: the result and the two maps after the call.              *)
HandleMessage(subsystemName, messageLogLevel, stream) ==
    LET prefixHash == Hash(stream)
        subsystemNameHash == Hash(subsystemName)
        unchanged(res) == [ result |-> res, recent |-> RecentMessageMap,
                            repeated |-> RepeatedMessageMap ]
    IN
    IF BusyInWrite THEN unchanged("Passed")
    ELSE IF InExceptionList(prefixHash, subsystemNameHash) THEN unchanged("Passed")
    ELSE IF prefixHash \in DOMAIN RepeatedMessageMap THEN
        LET repeatedMessage == RepeatedMessageMap[prefixHash]
            logTimeDifferenceMs ==
                GetLogMillisecondTimeDifference(repeatedMessage.lastTimeMs, now)
        IN
        IF logTimeDifferenceMs < maxDeferrableDetectionTimeMs THEN
            IF PrintedBeforeDeferring(repeatedMessage) THEN
                [ result |-> "Passed", recent |-> RecentMessageMap,
                  repeated |-> [RepeatedMessageMap EXCEPT ![prefixHash] =
                      [@ EXCEPT !.lastTimeMs = now,
                                !.printedCount = @ + 1]] ]
            ELSE
                [ result |-> "Aggregated", recent |-> RecentMessageMap,
                  repeated |-> [RepeatedMessageMap EXCEPT ![prefixHash] =
                      [@ EXCEPT !.lastTimeMs = now,
                                !.aggregatedCount = @ + 1,
                                !.stream = IF repeatedMessage.aggregatedCount + 1
                                               >= maxDeferredMessages
                                           THEN stream ELSE @]] ]
        ELSE unchanged("Passed")
    ELSE IF prefixHash \in DOMAIN RecentMessageMap THEN
        [ result |-> "Passed",
          recent |-> EraseRecent(RecentMessageMap, prefixHash),
          repeated |-> MapPut(RepeatedMessageMap, prefixHash,
                          RepeatedMessage(subsystemName, messageLogLevel, stream, now)) ]
    ELSE
        [ result |-> "Passed",
          recent |-> MapPut(RecentMessageMap, prefixHash, [timeMs |-> now]),
          repeated |-> RepeatedMessageMap ]

-----------------------------------------------------------------------------
(* Poll, the part under the Mutex.                                         *)

\* The iterators Poll copies to itArray: the first arrayCapacity entries in the
\* iteration order of the unordered map, which is any order.
PruneChoices(recent) ==
    LET arrayCapacity == recentMessageCount * 3
        itArraySize == Min(Cardinality(DOMAIN recent), arrayCapacity)
    IN  { S \in SUBSET (DOMAIN recent) : Cardinality(S) = itArraySize }

\* for (i = 0; i < itArraySize; ++i) RecentMessageMap.erase(itArray[i]);
PruneRecent(recent, itArray) ==
    IF Cardinality(DOMAIN recent) > recentMessageCount * 2
    THEN MapErase(recent, itArray)
    ELSE recent

Expired(repeatedMessage) ==
    GetLogMillisecondTimeDifference(repeatedMessage.lastTimeMs, now)
        > maxDeferrableDetectionTimeMs

\* The hashes whose entries Poll's loop erases, and those it flushes at the cap.
PollErased(repeated) == { h \in DOMAIN repeated : Expired(repeated[h]) }
PollFinal(repeated) ==
    { h \in PollErased(repeated) : repeated[h].aggregatedCount > 0 }
PollCapped(repeated) ==
    { h \in (DOMAIN repeated) \ PollErased(repeated) :
          repeated[h].aggregatedCount >= maxDeferredMessages }

\* A loop that prints at the cap without starting a new round of aggregation.
PollScan_CountKept(repeated) ==
    [ h \in (DOMAIN repeated) \ PollErased(repeated) |-> repeated[h] ]

\* RepeatedMessageMap after Poll's loop.
PollScan(repeated) ==
    [ h \in (DOMAIN repeated) \ PollErased(repeated) |->
        IF h \in PollCapped(repeated)
        THEN [repeated[h] EXCEPT !.printedCount = @ + repeated[h].aggregatedCount,
                                 !.aggregatedCount = 0]
        ELSE repeated[h] ]

\* The orders in which the loop can meet the entries it prints.
Orderings(S) ==
    { q \in [1..Cardinality(S) -> S] : \A i, j \in 1..Cardinality(S) : i # j => q[i] # q[j] }

\* PrintDeferredAggregateMessage: "[Aggregated %d times] " inserted before the stream.
AggregateText(repeatedMessage) ==
    [ prefix |-> <<"Aggregated", repeatedMessage.aggregatedCount, "times">>,
      body |-> repeatedMessage.stream ]

-----------------------------------------------------------------------------
(* History, per hash, since the hash was first sighted (entered the recent *)
(* map): occ, the occurrences HandleMessage classified, not counting those *)
(* it found outside the window of a stale entry; passed and agg, how many  *)
(* of them it passed and aggregated; inWindow, whether every occurrence    *)
(* came within the window of the one before; summ and nsumm, the counts    *)
(* and the number of the summaries Poll collected for the entry; closed,   *)
(* whether Poll has erased the entry.                                      *)

AllHashes == { Hash(t) : t \in RmmTexts }

NoRun == [ occ |-> 0, passed |-> 0, agg |-> 0, inWindow |-> TRUE,
           summ |-> 0, nsumm |-> 0, closed |-> FALSE ]

\* run after HandleMessage(subsystemName, ., stream) returned res.
RunAfterHandle(subsystemName, stream, res) ==
    LET h == Hash(stream)
        bypass == \/ BusyInWrite
                  \/ h \in RepeatedMessageExceptionSet
                  \/ Hash(subsystemName) \in RepeatedMessageSubsystemExceptionSet
        first == h \notin DOMAIN RepeatedMessageMap /\ h \notin DOMAIN RecentMessageMap
        last == IF h \in DOMAIN RepeatedMessageMap THEN RepeatedMessageMap[h].lastTimeMs
                ELSE RecentMessageMap[h].timeMs
        within == (now - last) < maxDeferrableDetectionTimeMs
        stale == h \in DOMAIN RepeatedMessageMap /\ ~within
        r == IF first THEN NoRun ELSE run[h]
    IN  IF bypass \/ h \notin DOMAIN run THEN run
        ELSE IF stale THEN [run EXCEPT ![h].inWindow = FALSE]
        ELSE [run EXCEPT ![h] =
                [r EXCEPT !.occ = @ + 1,
                          !.passed = @ + (IF res = "Passed" THEN 1 ELSE 0),
                          !.agg = @ + (IF res = "Aggregated" THEN 1 ELSE 0),
                          !.inWindow = @ /\ (first \/ within)]]

\* run after Poll's loop over repeated.
RunAfterPoll(repeated) ==
    [ h \in DOMAIN run |->
        IF h \in PollFinal(repeated) \cup PollCapped(repeated)
        THEN [run[h] EXCEPT !.summ = @ + repeated[h].aggregatedCount,
                            !.nsumm = @ + 1,
                            !.closed = h \in PollErased(repeated)]
        ELSE IF h \in PollErased(repeated)
        THEN [run[h] EXCEPT !.closed = TRUE]
        ELSE run[h] ]

-----------------------------------------------------------------------------
(* The threads of the worker, and the worker and the plugin registry left  *)
(* alone by the specifications that call RepeatedMessageManager directly.  *)

Threads == { "producer", "flusher", "controller", "dispatcher" }

\* afterStop while the history of Stop is not kept, and when it is kept and no
\* Stop has returned since the last Write, Flush or Start call.
NotObserved == [ observed |-> FALSE, taken |-> FALSE, state |-> <<>> ]
NoStopYet == [ observed |-> TRUE, taken |-> FALSE, state |-> <<>> ]

\* No debugger attached, nothing written to its stream.
NoDebugger ==
    /\ IsInDebugger = FALSE
    /\ DbgViewLog = <<>>

\* The registry where it is not followed pointer by pointer.
NoLinks ==
    /\ ChannelNodeHeadPointer = "nullptr"
    /\ ChannelNodeFields = <<>>

WorkerInert ==
    /\ NoDebugger
    /\ NoLinks
    /\ Plugins = {}
    /\ WorkQueue = <<>>
    /\ WorkQueueSize = 0
    /\ WorkQueueOverrun = 0
    /\ WorkQueueLock = "none"
    /\ WorkerWakeEvent = FALSE
    /\ LoggingThread = FALSE
    /\ Terminated = FALSE
    /\ FlushEvent = FALSE
    /\ pc = [t \in Threads |-> "idle"]
    /\ batch = <<>>
    /\ written = <<>>
    /\ fate = <<>>
    /\ sinceDetach = 0
    /\ enqueued = <<>>
    /\ sentinelAt = 0
    /\ stopMark = 0
    /\ dispatchThreads = 0
    /\ startsIgnored = 0
    /\ afterStop = NotObserved

(* The Configurator and the channel registry.                              *)

ChannelNames == { "a", "b" }
ChannelLevels == { "Debug", "Info" }

\* Channel's initial MinimumOutputLevel (the constant is declared with the class,
\* not in the sources).
DefaultMinimumOutputLevel == "Info"

\* Channel::registerNode: the node of a channel, pointing at the channel's level
\* and flag. pinned is history: the level the last SetChannel call gave the
\* channel, while no other call than SetGlobalMinimumLogLevel has set its level.
ChannelNode(name, level, userOverrode) ==
    [ SubsystemName |-> name, Level |-> level,
      UserOverrodeMinimumOutputLevel |-> userOverrode, pinned |-> "none" ]

\* No plugin: Plugin(nullptr).
NoConfiguratorPlugin ==
    [ attached |-> FALSE, levels |-> [name \in ChannelNames |-> "unsaved"] ]

\* The persistence plugins: each holds a level for some of the names.
ConfiguratorPlugins ==
    { [ attached |-> TRUE, levels |-> l ] :
          l \in [ChannelNames -> ChannelLevels \cup { "unsaved" }] }

\* registering of a thread that is not in a registration.
NotRegistering == [ node |-> <<>>, head |-> <<>> ]

\* Configurator::Configurator, no channel constructed yet, no thread in a call
\* that is followed lock by lock.
ConfiguratorIdle ==
    /\ GlobalMinimumLogLevel = "Debug"
    /\ ChannelNodeHead = <<>>
    /\ ConfiguratorPlugin = NoConfiguratorPlugin
    /\ registering = [t \in Threads |-> NotRegistering]
    /\ held = [t \in Threads |-> <<>>]
    /\ todo = [t \in Threads |-> <<>>]

\* Plugin->RestoreChannelLevel(channelName, level) after level = GlobalMinimumLogLevel:
\* the level the plugin holds for the name, if there is a plugin and it holds one.
RestoredLevel(plugin, channelName) ==
    IF plugin.attached /\ plugin.levels[channelName] # "unsaved"
    THEN plugin.levels[channelName]
    ELSE GlobalMinimumLogLevel

\* A SetChannelNoLock that stops at the first channel of the name.
SetChannelNoLock_FirstOnly(nodes, channelName, level, overrideUser) ==
    [ i \in DOMAIN nodes |->
        IF /\ nodes[i].SubsystemName = channelName
           /\ \A j \in 1..(i - 1) : nodes[j].SubsystemName # channelName
           /\ (nodes[i].UserOverrodeMinimumOutputLevel = FALSE \/ overrideUser)
        THEN [nodes[i] EXCEPT !.Level = level]
        ELSE nodes[i] ]

\* Configurator::SetChannelNoLock: "Purposely no break, channels may have
\* duplicate names".
SetChannelNoLock(nodes, channelName, level, overrideUser) ==
    [ i \in DOMAIN nodes |->
        IF /\ nodes[i].SubsystemName = channelName
           /\ (nodes[i].UserOverrodeMinimumOutputLevel = FALSE \/ overrideUser)
        THEN [nodes[i] EXCEPT !.Level = level]
        ELSE nodes[i] ]

\* Configurator::RestoreChannelLogLevel(const char* channelName), with Plugin = plugin.
RestoreChannelLogLevel(nodes, plugin, channelName) ==
    SetChannelNoLock(nodes, channelName, RestoredLevel(plugin, channelName), FALSE)

RECURSIVE RestoreFrom(_, _, _)
\* The loop of RestoreAllChannelLogLevelsNoLock and of SetPlugin, from node i on.
RestoreFrom(nodes, plugin, i) ==
    IF i > Len(nodes) THEN nodes
    ELSE RestoreFrom(RestoreChannelLogLevel(nodes, plugin, nodes[i].SubsystemName),
                     plugin, i + 1)

\* pinned after a call that is not SetGlobalMinimumLogLevel took the list from
\* old to new: dropped where the call changed the level.
Unpinned(old, new) ==
    [ i \in DOMAIN new |->
        IF new[i].Level # old[i].Level THEN [new[i] EXCEPT !.pinned = "none"] ELSE new[i] ]

\* Configurator::RestoreAllChannelLogLevelsNoLock
RestoreAllChannelLogLevelsNoLock ==
    Unpinned(ChannelNodeHead, RestoreFrom(ChannelNodeHead, ConfiguratorPlugin, 1))

RegistryUnused ==
    /\ added = EmptyMap
    /\ lastGet = [name |-> "", result |-> 0]

-----------------------------------------------------------------------------
(* SpecRMM: the manager called directly.                                   *)

ExceptionTexts == { <<97, 98, 120>> }
ExceptionSubsystems == { <<76>> }

InitRMM ==
    /\ BusyInWrite = FALSE
    /\ RecentMessageMap = EmptyMap
    /\ RepeatedMessageMap = EmptyMap
    /\ RepeatedMessageExceptionSet = {}
    /\ RepeatedMessageSubsystemExceptionSet = {}
    /\ now = 0
    /\ messagesToPrint = <<>>
    /\ pollPc = "idle"
    /\ emitted = <<>>
    /\ lastResult = [result |-> "None", excepted |-> FALSE]
    /\ run = [h \in AllHashes |-> NoRun]
    /\ WorkerInert
    /\ ConfiguratorIdle
    /\ OutputWorkerInstValid = TRUE
    /\ RegistryUnused

Tick ==
    /\ now < MaxTime
    /\ now' = now + 1
    /\ UNCHANGED <<BusyInWrite, RecentMessageMap, RepeatedMessageMap,
                   RepeatedMessageExceptionSet, RepeatedMessageSubsystemExceptionSet,
                   messagesToPrint, pollPc, emitted, lastResult, run>>
    /\ UNCHANGED <<workerVars, pluginVars, lifecycleVars, configVars>>

\* The clock advances past the aggregation window in one step.
Elapse ==
    /\ now + maxDeferrableDetectionTimeMs + 1 <= MaxTime
    /\ now' = now + maxDeferrableDetectionTimeMs + 1
    /\ UNCHANGED <<BusyInWrite, RecentMessageMap, RepeatedMessageMap,
                   RepeatedMessageExceptionSet, RepeatedMessageSubsystemExceptionSet,
                   messagesToPrint, pollPc, emitted, lastResult, run>>
    /\ UNCHANGED <<workerVars, pluginVars, lifecycleVars, configVars>>

\* The model's bounds on a HandleMessage call.
WithinBounds(hm, maxOccurrences) ==
    /\ Cardinality(DOMAIN hm.recent) <= MaxRecent
    /\ \A h \in DOMAIN hm.repeated :
          hm.repeated[h].printedCount + hm.repeated[h].aggregatedCount <= maxOccurrences

RmmHandleMessage(subsystemName, messageLogLevel, stream, maxOccurrences) ==
    LET hm == HandleMessage(subsystemName, messageLogLevel, stream) IN
    /\ WithinBounds(hm, maxOccurrences)
    /\ RecentMessageMap' = hm.recent
    /\ RepeatedMessageMap' = hm.repeated
    /\ lastResult' = [result |-> hm.result,
                      excepted |-> InExceptionList(Hash(stream), Hash(subsystemName))]
    /\ run' = RunAfterHandle(subsystemName, stream, hm.result)
    /\ UNCHANGED <<BusyInWrite, RepeatedMessageExceptionSet,
                   RepeatedMessageSubsystemExceptionSet, now, messagesToPrint,
                   pollPc, emitted>>
    /\ UNCHANGED <<workerVars, pluginVars, lifecycleVars, configVars>>

\* Poll up to the end of its locked block.
RmmPollCollect ==
    /\ pollPc = "idle"
    /\ \E itArray \in PruneChoices(RecentMessageMap) :
          RecentMessageMap' = PruneRecent(RecentMessageMap, itArray)
    /\ RepeatedMessageMap' = PollScan(RepeatedMessageMap)
    /\ \E order \in Orderings(PollFinal(RepeatedMessageMap)
                                 \cup PollCapped(RepeatedMessageMap)) :
          messagesToPrint' = [i \in DOMAIN order |-> RepeatedMessageMap[order[i]]]
    /\ pollPc' = IF messagesToPrint' = <<>> THEN "idle" ELSE "print"
    /\ run' = RunAfterPoll(RepeatedMessageMap)
    /\ emitted' = <<>>
    /\ UNCHANGED <<BusyInWrite, RepeatedMessageExceptionSet,
                   RepeatedMessageSubsystemExceptionSet, now, lastResult>>
    /\ UNCHANGED <<workerVars, pluginVars, lifecycleVars, configVars>>

\* PrintDeferredAggregateMessage: BusyInWrite = true;
RmmPrintBegin ==
    /\ pollPc = "print"
    /\ BusyInWrite' = TRUE
    /\ pollPc' = "write"
    /\ UNCHANGED <<RecentMessageMap, RepeatedMessageMap, RepeatedMessageExceptionSet,
                   RepeatedMessageSubsystemExceptionSet, now, messagesToPrint,
                   emitted, lastResult, run>>
    /\ UNCHANGED <<workerVars, pluginVars, lifecycleVars, configVars>>

\* outputWorker->Write(subsystemName, level, stream, false, DangerouslyIgnoreQueueLimit),
\* which calls HandleMessage on the summary.
RmmPrintWrite ==
    /\ pollPc = "write"
    /\ LET m == Head(messagesToPrint)
           hm == HandleMessage(m.subsystemName, m.messageLogLevel, m.stream)
       IN  /\ RecentMessageMap' = hm.recent
           /\ RepeatedMessageMap' = hm.repeated
           /\ emitted' = Append(emitted,
                  [ subsystemName |-> m.subsystemName, messageLogLevel |-> m.messageLogLevel,
                    text |-> AggregateText(m), result |-> hm.result ])
    /\ pollPc' = "clear"
    /\ UNCHANGED <<BusyInWrite, RepeatedMessageExceptionSet,
                   RepeatedMessageSubsystemExceptionSet, now, messagesToPrint,
                   lastResult, run>>
    /\ UNCHANGED <<workerVars, pluginVars, lifecycleVars, configVars>>

\* BusyInWrite = false; and the next message of the vector.
RmmPrintEnd ==
    /\ pollPc = "clear"
    /\ BusyInWrite' = FALSE
    /\ messagesToPrint' = Tail(messagesToPrint)
    /\ pollPc' = IF Tail(messagesToPrint) = <<>> THEN "idle" ELSE "print"
    /\ UNCHANGED <<RecentMessageMap, RepeatedMessageMap, RepeatedMessageExceptionSet,
                   RepeatedMessageSubsystemExceptionSet, now, emitted, lastResult, run>>
    /\ UNCHANGED <<workerVars, pluginVars, lifecycleVars, configVars>>

AddRepeatedMessageException(messagePrefix) ==
    /\ RepeatedMessageExceptionSet' =
           RepeatedMessageExceptionSet \cup {Hash(messagePrefix)}
    /\ UNCHANGED <<BusyInWrite, RecentMessageMap, RepeatedMessageMap,
                   RepeatedMessageSubsystemExceptionSet, now, messagesToPrint,
                   pollPc, emitted, lastResult, run>>
    /\ UNCHANGED <<workerVars, pluginVars, lifecycleVars, configVars>>

RemoveRepeatedMessageException(messagePrefix) ==
    /\ RepeatedMessageExceptionSet' =
           RepeatedMessageExceptionSet \ {Hash(messagePrefix)}
    /\ UNCHANGED <<BusyInWrite, RecentMessageMap, RepeatedMessageMap,
                   RepeatedMessageSubsystemExceptionSet, now, messagesToPrint,
                   pollPc, emitted, lastResult, run>>
    /\ UNCHANGED <<workerVars, pluginVars, lifecycleVars, configVars>>

AddRepeatedMessageSubsystemException(subsystemName) ==
    /\ RepeatedMessageSubsystemExceptionSet' =
           RepeatedMessageSubsystemExceptionSet \cup {Hash(subsystemName)}
    /\ UNCHANGED <<BusyInWrite, RecentMessageMap, RepeatedMessageMap,
                   RepeatedMessageExceptionSet, now, messagesToPrint,
                   pollPc, emitted, lastResult, run>>
    /\ UNCHANGED <<workerVars, pluginVars, lifecycleVars, configVars>>

\* The function looks its hash up in the subsystem set, and then compares the
\* iterator with the end of the message set and erases it from the message set:
\* undefined behaviour. The comparison can come out either way; an erase that
\* runs unlinks the node from the set it is in, or not, and can leave the message
\* set with any of its elements missing. (A build that stops the process there
\* takes no further step.)
RemoveRepeatedMessageSubsytemException(subsystemName) ==
    /\ RepeatedMessageSubsystemExceptionSet' \in
           { RepeatedMessageSubsystemExceptionSet,
             RepeatedMessageSubsystemExceptionSet \ {Hash(subsystemName)} }
    /\ RepeatedMessageExceptionSet' \in SUBSET RepeatedMessageExceptionSet
    /\ UNCHANGED <<BusyInWrite, RecentMessageMap, RepeatedMessageMap,
                   now, messagesToPrint, pollPc, emitted, lastResult, run>>
    /\ UNCHANGED <<workerVars, pluginVars, lifecycleVars, configVars>>

RmmHandleMessageCall ==
    \E subsystemName \in {<<75>>}, messageLogLevel \in Levels, stream \in RmmTexts :
        RmmHandleMessage(subsystemName, messageLogLevel, stream, MaxOccurrences)

NextRMM ==
    \/ Tick
    \/ RmmHandleMessageCall
    \/ RmmPollCollect
    \/ RmmPrintBegin
    \/ RmmPrintWrite
    \/ RmmPrintEnd

SpecRMM == InitRMM /\ [][NextRMM]_vars

-----------------------------------------------------------------------------
(* SpecPrune: a burst of HandleMessage calls within one millisecond, and   *)
(* Poll calls between them, from one thread.                               *)

\* Poll as one step: the locked block, then PrintDeferredAggregateMessage for
\* every message of the vector (HandleMessage passes each: BusyInWrite is set).
PollSeq ==
    /\ pollPc = "idle"
    /\ \E itArray \in PruneChoices(RecentMessageMap) :
          RecentMessageMap' = PruneRecent(RecentMessageMap, itArray)
    /\ RepeatedMessageMap' = PollScan(RepeatedMessageMap)
    /\ \E order \in Orderings(PollFinal(RepeatedMessageMap)
                                 \cup PollCapped(RepeatedMessageMap)) :
          emitted' = [i \in DOMAIN order |->
              LET m == RepeatedMessageMap[order[i]] IN
              [ subsystemName |-> m.subsystemName, messageLogLevel |-> m.messageLogLevel,
                text |-> AggregateText(m), result |-> "Passed" ]]
    /\ run' = RunAfterPoll(RepeatedMessageMap)
    /\ UNCHANGED <<BusyInWrite, RepeatedMessageExceptionSet,
                   RepeatedMessageSubsystemExceptionSet, now, messagesToPrint,
                   pollPc, lastResult>>
    /\ UNCHANGED <<workerVars, pluginVars, lifecycleVars, configVars>>

PruneHandleMessageCall ==
    \E messageLogLevel \in Levels, stream \in PruneTexts :
        RmmHandleMessage(<<75>>, messageLogLevel, stream, BurstOccurrences)

InitPrune ==
    /\ BusyInWrite = FALSE
    /\ RecentMessageMap = EmptyMap
    /\ RepeatedMessageMap = EmptyMap
    /\ RepeatedMessageExceptionSet = {}
    /\ RepeatedMessageSubsystemExceptionSet = {}
    /\ now = 0
    /\ messagesToPrint = <<>>
    /\ pollPc = "idle"
    /\ emitted = <<>>
    /\ lastResult = [result |-> "None", excepted |-> FALSE]
    /\ run = EmptyMap
    /\ WorkerInert
    /\ ConfiguratorIdle
    /\ OutputWorkerInstValid = TRUE
    /\ RegistryUnused

NextPrune ==
    \/ PruneHandleMessageCall
    \/ PollSeq

SpecPrune == InitPrune /\ [][NextPrune]_vars

\* SpecEvict: the same calls with the clock running between them, so that the
\* entries of the recent-message map have different first-seen times.
EvictTexts == { <<97>>, <<98>>, <<99>> }

NextEvict ==
    \/ \E messageLogLevel \in Levels, stream \in EvictTexts :
          RmmHandleMessage(<<75>>, messageLogLevel, stream, BurstOccurrences)
    \/ PollSeq
    \/ Tick

SpecEvict == InitPrune /\ [][NextEvict]_vars

-----------------------------------------------------------------------------
(* SpecExc: the exception lists, with HandleMessage and Poll called from   *)
(* one thread.                                                             *)

ExcHandleMessageCall ==
    \E subsystemName \in Subsystems, messageLogLevel \in Levels, stream \in ExcTexts :
        RmmHandleMessage(subsystemName, messageLogLevel, stream, ExcOccurrences)

RmmAddException ==
    \E messagePrefix \in ExceptionTexts : AddRepeatedMessageException(messagePrefix)

RmmRemoveException ==
    \E messagePrefix \in ExceptionTexts : RemoveRepeatedMessageException(messagePrefix)

RmmAddSubsystemException ==
    \E subsystemName \in ExceptionSubsystems :
        AddRepeatedMessageSubsystemException(subsystemName)

RmmRemoveSubsystemException ==
    \E subsystemName \in ExceptionSubsystems :
        RemoveRepeatedMessageSubsytemException(subsystemName)

InitExc ==
    /\ BusyInWrite = FALSE
    /\ RecentMessageMap = EmptyMap
    /\ RepeatedMessageMap = EmptyMap
    /\ RepeatedMessageExceptionSet = {}
    /\ RepeatedMessageSubsystemExceptionSet = {}
    /\ now = 0
    /\ messagesToPrint = <<>>
    /\ pollPc = "idle"
    /\ emitted = <<>>
    /\ lastResult = [result |-> "None", excepted |-> FALSE]
    /\ run = EmptyMap
    /\ WorkerInert
    /\ ConfiguratorIdle
    /\ OutputWorkerInstValid = TRUE
    /\ RegistryUnused

NextExc ==
    \/ Elapse
    \/ ExcHandleMessageCall
    \/ PollSeq
    \/ RmmAddException
    \/ RmmRemoveException
    \/ RmmAddSubsystemException
    \/ RmmRemoveSubsystemException

SpecExc == InitExc /\ [][NextExc]_vars

-----------------------------------------------------------------------------
(* SpecPlugins: the plugin registry, called from one thread.               *)

\* A plugin object: its address (id) and what GetUniquePluginName returns.
PluginNames == << "DbgView", "Console", "EventLog" >>
Plugin(id) == [ id |-> id, name |-> PluginNames[((id - 1) % Len(PluginNames)) + 1] ]
NullPlugin == [ id |-> 0, name |-> "" ]
PluginObjects == { Plugin(id) : id \in 1..MaxPlugins }

\* The plugins the loop of RemovePlugin and of GetPlugin can meet first with the
\* name: the set is ordered by address, which is any order.
FirstMatches(plugins, name) == { existingPlugin \in plugins : existingPlugin.name = name }

\* A RemovePlugin that erases nothing.
PluginsErase_Nothing(plugins, existingPlugin) == plugins

\* Plugins.erase(existingPlugin);
PluginsErase(plugins, existingPlugin) == plugins \ {existingPlugin}

\* The sets RemovePlugin(pluginToRemove) can leave.
RemovePluginResults(plugins, pluginToRemove) ==
    IF pluginToRemove = NullPlugin \/ FirstMatches(plugins, pluginToRemove.name) = {}
    THEN { plugins }
    ELSE { PluginsErase(plugins, existingPlugin) :
               existingPlugin \in FirstMatches(plugins, pluginToRemove.name) }

\* The sets AddPlugin(plugin) can leave.
AddPluginResults(plugins, plugin) ==
    IF plugin = NullPlugin THEN { plugins }
    ELSE { removed \cup {plugin} : removed \in RemovePluginResults(plugins, plugin) }

\* What GetPlugin(pluginName) can return.
GetPluginResults(plugins, pluginName) ==
    IF FirstMatches(plugins, pluginName) = {} THEN { NullPlugin }
    ELSE FirstMatches(plugins, pluginName)

NotAdded == [ count |-> 0, last |-> 0 ]

AddPlugin(plugin) ==
    /\ plugin # NullPlugin => added[plugin.name].count < MaxAdds
    /\ Plugins' \in AddPluginResults(Plugins, plugin)
    /\ added' = IF plugin = NullPlugin THEN added
                ELSE [added EXCEPT ![plugin.name] =
                         [count |-> @.count + 1, last |-> plugin.id]]
    /\ UNCHANGED <<lastGet, rmmVars, lifecycleVars, configVars, WorkQueue,
                   WorkQueueSize, WorkQueueOverrun, WorkQueueLock, WorkerWakeEvent,
                   LoggingThread, Terminated, FlushEvent, pc, batch, written, fate,
                   sinceDetach, enqueued, sentinelAt, stopMark>>

RemovePlugin(pluginToRemove) ==
    /\ Plugins' \in RemovePluginResults(Plugins, pluginToRemove)
    /\ added' = IF pluginToRemove = NullPlugin THEN added
                ELSE [added EXCEPT ![pluginToRemove.name] = NotAdded]
    /\ UNCHANGED <<lastGet, rmmVars, lifecycleVars, configVars, WorkQueue,
                   WorkQueueSize, WorkQueueOverrun, WorkQueueLock, WorkerWakeEvent,
                   LoggingThread, Terminated, FlushEvent, pc, batch, written, fate,
                   sinceDetach, enqueued, sentinelAt, stopMark>>

GetPlugin(pluginName) ==
    /\ \E result \in GetPluginResults(Plugins, pluginName) :
          lastGet' = [name |-> pluginName, result |-> result.id]
    /\ UNCHANGED <<Plugins, added, rmmVars, lifecycleVars, configVars, WorkQueue,
                   WorkQueueSize, WorkQueueOverrun, WorkQueueLock, WorkerWakeEvent,
                   LoggingThread, Terminated, FlushEvent, pc, batch, written, fate,
                   sinceDetach, enqueued, sentinelAt, stopMark>>

DisableAllPlugins ==
    /\ Plugins' = {}
    /\ added' = [name \in DOMAIN added |-> NotAdded]
    /\ UNCHANGED <<lastGet, rmmVars, lifecycleVars, configVars, WorkQueue,
                   WorkQueueSize, WorkQueueOverrun, WorkQueueLock, WorkerWakeEvent,
                   LoggingThread, Terminated, FlushEvent, pc, batch, written, fate,
                   sinceDetach, enqueued, sentinelAt, stopMark>>

AddPluginCall == \E plugin \in PluginObjects \cup {NullPlugin} : AddPlugin(plugin)
RemovePluginCall == \E pluginToRemove \in PluginObjects \cup {NullPlugin} :
                        RemovePlugin(pluginToRemove)
GetPluginCall == \E i \in DOMAIN PluginNames : GetPlugin(PluginNames[i])

RmmIdle ==
    /\ BusyInWrite = FALSE
    /\ RecentMessageMap = EmptyMap
    /\ RepeatedMessageMap = EmptyMap
    /\ RepeatedMessageExceptionSet = {}
    /\ RepeatedMessageSubsystemExceptionSet = {}
    /\ now = 0
    /\ messagesToPrint = <<>>
    /\ pollPc = "idle"
    /\ emitted = <<>>
    /\ lastResult = [result |-> "None", excepted |-> FALSE]
    /\ run = EmptyMap

InitPlugins ==
    /\ RmmIdle
    /\ WorkerInert
    /\ ConfiguratorIdle
    /\ OutputWorkerInstValid = TRUE
    /\ added = [i \in { PluginNames[j] : j \in DOMAIN PluginNames } |-> NotAdded]
    /\ lastGet = [name |-> "", result |-> 0]

NextPlugins ==
    \/ AddPluginCall
    \/ RemovePluginCall
    \/ GetPluginCall
    \/ DisableAllPlugins

SpecPlugins == InitPlugins /\ [][NextPlugins]_vars

-----------------------------------------------------------------------------
(* Spec: the OutputWorker and its threads. IsInDebugger is false.          *)

WorkerTexts == { <<97>> }

\* The records of the work queue.
QueuedLogMessage(kind, id, stream, count) ==
    [ kind |-> kind, id |-> id, stream |-> stream, count |-> count ]
\* Write's record for call number id.
MessageRecord(id, stream) == QueuedLogMessage("message", id, stream, 0)
\* The record of PrintDeferredAggregateMessage's Write: "[Aggregated count times] stream".
AggregateRecord(repeatedMessage) ==
    QueuedLogMessage("aggregate", 0, repeatedMessage.stream, repeatedMessage.aggregatedCount)
\* "Lost lostCount log messages due to queue overrun; ..."
LostRecord(lostCount) == QueuedLogMessage("lost", 0, <<>>, lostCount)
\* Flush's record, the one with a FlushEvent.
FlushRecord == QueuedLogMessage("flush", 0, <<>>, 0)

\* WorkQueueAdd (declared with the class, not in the sources): the record linked
\* after WorkQueueTail, and WorkQueueSize incremented.
WorkQueueAdd(message) ==
    [ queue |-> Append(WorkQueue, message), size |-> WorkQueueSize + 1 ]

\* A Write that stops at the limit whatever its option.
QueueFull_NoOverride(option) ==
    WorkQueueSize >= WorkQueueLimit

\* A Write with a queue limit of 0: it drops whatever the queue holds.
QueueFull_ZeroLimit(option) ==
    option # "DangerouslyIgnoreQueueLimit" /\ WorkQueueSize >= 0

\* A Write that lets one record more into the queue.
QueueFull_OneMore(option) ==
    option # "DangerouslyIgnoreQueueLimit" /\ WorkQueueSize > WorkQueueLimit

\* option != WriteOption::DangerouslyIgnoreQueueLimit && WorkQueueSize >= WorkQueueLimit
QueueFull(option) ==
    option # "DangerouslyIgnoreQueueLimit" /\ WorkQueueSize >= WorkQueueLimit

\* A Write that never wakes the worker thread.
NeedToWakeWorkerThread_Never(size) ==
    FALSE

\* "Only need to wake the worker thread on the first message":
\* if (WorkQueueSize <= 1) needToWakeWorkerThread = true; after WorkQueueAdd.
NeedToWakeWorkerThread(size) ==
    size <= 1

\* What Stop leaves behind: the records handed to the plugins, the queue and its
\* counters, the thread, and the maps of the repeated-message manager.
WorkerState ==
    <<written, WorkQueue, WorkQueueSize, WorkQueueOverrun, LoggingThread, Terminated,
      dispatchThreads, RecentMessageMap, RepeatedMessageMap>>

\* afterStop after a Write, Flush or Start call.
StopForgotten == IF afterStop.observed THEN NoStopYet ELSE afterStop

\* Whether a thread can take WorkQueueLock (a recursive lock).
CanLock(t) == WorkQueueLock \in { "none", t }

\* Write's locked block for a producer: classify, then drop or queue.
Write(t, stream) ==
    /\ pc[t] = "idle"
    /\ CanLock(t)
    /\ Len(fate) < MaxWrites
    /\ LET hm == HandleMessage(<<75>>, "Info", stream) IN
       /\ RecentMessageMap' = hm.recent
       /\ RepeatedMessageMap' = hm.repeated
       /\ IF hm.result = "Aggregated" THEN
              /\ fate' = Append(fate, "aggregated")
              /\ UNCHANGED <<WorkQueue, WorkQueueSize, WorkQueueOverrun, pc, enqueued,
                             sinceDetach>>
          ELSE IF QueueFull("Default") THEN
              /\ WorkQueueOverrun' = WorkQueueOverrun + 1
              /\ fate' = Append(fate, "dropped")
              /\ sinceDetach' = sinceDetach + 1
              /\ UNCHANGED <<WorkQueue, WorkQueueSize, pc, enqueued>>
          ELSE
              /\ WorkQueue' = WorkQueueAdd(MessageRecord(Len(fate) + 1, stream)).queue
              /\ WorkQueueSize' = WorkQueueAdd(MessageRecord(Len(fate) + 1, stream)).size
              /\ enqueued' = Append(enqueued, MessageRecord(Len(fate) + 1, stream))
              /\ fate' = Append(fate, "queued")
              /\ sinceDetach' = sinceDetach + 1
              /\ pc' = [pc EXCEPT ![t] = IF NeedToWakeWorkerThread(WorkQueueSize')
                                          THEN "wake" ELSE "idle"]
              /\ UNCHANGED WorkQueueOverrun
    /\ afterStop' = StopForgotten
    /\ UNCHANGED <<BusyInWrite, RepeatedMessageExceptionSet,
                   RepeatedMessageSubsystemExceptionSet, now, messagesToPrint, pollPc,
                   emitted, lastResult, run, Plugins, WorkQueueLock, WorkerWakeEvent,
                   LoggingThread, Terminated, FlushEvent, batch, written, sentinelAt,
                   stopMark, pluginVars, dispatchThreads, startsIgnored, configVars>>

\* Write after its locked block: ::SetEvent(WorkerWakeEvent.Get());
WriteWake(t) ==
    /\ pc[t] = "wake"
    /\ WorkerWakeEvent' = TRUE
    /\ pc' = [pc EXCEPT ![t] = "idle"]
    /\ UNCHANGED <<rmmVars, Plugins, WorkQueue, WorkQueueSize, WorkQueueOverrun,
                   WorkQueueLock, LoggingThread, Terminated, FlushEvent, batch, written,
                   fate, sinceDetach, enqueued, sentinelAt, stopMark, pluginVars,
                   lifecycleVars, configVars>>

\* A Flush that does not look at the thread.
FlushWhileRunning_Unchecked == TRUE

\* Flush's test: LoggingThread.IsValid(), "Must be called between Start() and Stop()".
FlushWhileRunning == LoggingThread

\* Flush up to its locked block: if (!LoggingThread.IsValid()) return; the call
\* that returns there leaves the flusher at "ignored".
FlushCheck ==
    /\ pc["flusher"] \in { "idle", "returned", "ignored" }
    /\ pc' = [pc EXCEPT !["flusher"] = IF FlushWhileRunning THEN "enqueue" ELSE "ignored"]
    /\ afterStop' = StopForgotten
    /\ UNCHANGED <<rmmVars, Plugins, WorkQueue, WorkQueueSize, WorkQueueOverrun,
                   WorkQueueLock, WorkerWakeEvent, LoggingThread, Terminated,
                   FlushEvent, batch, written, fate, sinceDetach, enqueued, sentinelAt,
                   stopMark, pluginVars, dispatchThreads, startsIgnored, configVars>>

\* Flush's locked block: a new event, the record queued, the worker woken.
FlushEnqueue ==
    /\ pc["flusher"] = "enqueue"
    /\ CanLock("flusher")
    /\ FlushEvent' = FALSE
    /\ WorkQueue' = WorkQueueAdd(FlushRecord).queue
    /\ WorkQueueSize' = WorkQueueAdd(FlushRecord).size
    /\ WorkerWakeEvent' = TRUE
    /\ sentinelAt' = Len(enqueued)
    /\ pc' = [pc EXCEPT !["flusher"] = "wait"]
    /\ UNCHANGED <<rmmVars, Plugins, WorkQueueOverrun, WorkQueueLock, LoggingThread,
                   Terminated, batch, written, fate, sinceDetach, enqueued, stopMark,
                   pluginVars, lifecycleVars, configVars>>

\* A Flush that does not wait.
FlushWaitOver_NoWait == TRUE

\* ::WaitForSingleObject(flushEvent.Get(), INFINITE) returns.
FlushWaitOver == FlushEvent

\* Flush returns, and its event is closed with it.
FlushReturn ==
    /\ pc["flusher"] = "wait"
    /\ FlushWaitOver
    /\ FlushEvent' = FALSE
    /\ pc' = [pc EXCEPT !["flusher"] = "returned"]
    /\ UNCHANGED <<rmmVars, Plugins, WorkQueue, WorkQueueSize, WorkQueueOverrun,
                   WorkQueueLock, WorkerWakeEvent, LoggingThread, Terminated, batch,
                   written, fate, sinceDetach, enqueued, sentinelAt, stopMark,
                   pluginVars, lifecycleVars, configVars>>

\* A Start that does not look at the thread.
AlreadyStarted_Unchecked == FALSE

\* "If already started": LoggingThread.IsValid(), under StartStopLock.
AlreadyStarted == LoggingThread

\* Start when the thread is valid: "return; // Nothing to do!". The controller
\* stands for whichever thread holds StartStopLock: Start and Stop hold it from
\* their first statement to their return, so the calls of several threads take
\* place one after the other.
StartRunning ==
    /\ pc["controller"] = "idle"
    /\ AlreadyStarted
    /\ startsIgnored < MaxIgnoredStarts
    /\ startsIgnored' = startsIgnored + 1
    /\ afterStop' = StopForgotten
    /\ UNCHANGED <<rmmVars, workerVars, pluginVars, dispatchThreads, configVars>>

\* Start when no thread runs, WorkerTerminator.Initialize() and CreateThread succeeding.
Start ==
    /\ pc["controller"] = "idle"
    /\ ~AlreadyStarted
    /\ Terminated' = FALSE
    /\ LoggingThread' = TRUE
    /\ pc' = [pc EXCEPT !["dispatcher"] = "loop"]
    /\ ChannelNodeHead' = RestoreAllChannelLogLevelsNoLock
    /\ dispatchThreads' = dispatchThreads + 1
    /\ afterStop' = StopForgotten
    /\ UNCHANGED <<rmmVars, Plugins, WorkQueue, WorkQueueSize, WorkQueueOverrun,
                   WorkQueueLock, WorkerWakeEvent, FlushEvent, batch, written, fate,
                   sinceDetach, enqueued, sentinelAt, stopMark, pluginVars,
                   startsIgnored, GlobalMinimumLogLevel, ConfiguratorPlugin,
                   registryVars, lockVars,
                   debuggerVars, linkVars>>

\* Start when no thread runs, Initialize succeeding and CreateThread failing.
StartThreadFails ==
    /\ pc["controller"] = "idle"
    /\ ~AlreadyStarted
    /\ Terminated' = FALSE
    /\ ChannelNodeHead' = RestoreAllChannelLogLevelsNoLock
    /\ dispatchThreads' = dispatchThreads
    /\ afterStop' = StopForgotten
    /\ UNCHANGED <<rmmVars, Plugins, WorkQueue, WorkQueueSize, WorkQueueOverrun,
                   WorkQueueLock, WorkerWakeEvent, LoggingThread, FlushEvent, pc, batch,
                   written, fate, sinceDetach, enqueued, sentinelAt, stopMark,
                   pluginVars, startsIgnored, GlobalMinimumLogLevel,
                   ConfiguratorPlugin, registryVars, lockVars,
                   debuggerVars, linkVars>>

\* A Start that goes on to CreateThread when Initialize has failed.
StartTerminatorFails_NoReturn == Start

\* Start when no thread runs, WorkerTerminator.Initialize() failing: Start
\* returns before CreateThread. What a failed Initialize leaves of the
\* terminator is not in the sources: it is terminated as before, or not.
StartTerminatorFails ==
    /\ pc["controller"] = "idle"
    /\ ~AlreadyStarted
    /\ Terminated' \in { Terminated, FALSE }
    /\ ChannelNodeHead' = RestoreAllChannelLogLevelsNoLock
    /\ dispatchThreads' = dispatchThreads
    /\ afterStop' = StopForgotten
    /\ UNCHANGED <<rmmVars, Plugins, WorkQueue, WorkQueueSize, WorkQueueOverrun,
                   WorkQueueLock, WorkerWakeEvent, LoggingThread, FlushEvent, pc, batch,
                   written, fate, sinceDetach, enqueued, sentinelAt, stopMark,
                   pluginVars, startsIgnored, GlobalMinimumLogLevel,
                   ConfiguratorPlugin, registryVars, lockVars,
                   debuggerVars, linkVars>>

\* Stop up to its wait for the thread: Terminate() if the thread is valid.
StopBegin ==
    /\ pc["controller"] = "idle"
    /\ Terminated' = (LoggingThread \/ Terminated)
    /\ pc' = [pc EXCEPT !["controller"] = IF LoggingThread THEN "join" ELSE "lock"]
    /\ stopMark' = Len(fate)
    /\ UNCHANGED <<rmmVars, Plugins, WorkQueue, WorkQueueSize, WorkQueueOverrun,
                   WorkQueueLock, WorkerWakeEvent, LoggingThread, FlushEvent, batch,
                   written, fate, sinceDetach, enqueued, sentinelAt, pluginVars,
                   lifecycleVars, configVars>>

\* ::WaitForSingleObject(LoggingThread.Get(), INFINITE) returns; LoggingThread.Clear();
StopJoin ==
    /\ pc["controller"] = "join"
    /\ pc["dispatcher"] = "exited"
    /\ LoggingThread' = FALSE
    /\ pc' = [pc EXCEPT !["controller"] = "lock", !["dispatcher"] = "idle"]
    /\ UNCHANGED <<rmmVars, Plugins, WorkQueue, WorkQueueSize, WorkQueueOverrun,
                   WorkQueueLock, WorkerWakeEvent, Terminated, FlushEvent, batch,
                   written, fate, sinceDetach, enqueued, sentinelAt, stopMark,
                   pluginVars, lifecycleVars, configVars>>

\* Locker workQueueLock(WorkQueueLock); and the call of ProcessQueuedMessages.
StopLock ==
    /\ pc["controller"] = "lock"
    /\ CanLock("controller")
    /\ WorkQueueLock' = "controller"
    /\ pc' = [pc EXCEPT !["controller"] = "process"]
    /\ pollPc' = "poll"
    /\ UNCHANGED <<BusyInWrite, RecentMessageMap, RepeatedMessageMap,
                   RepeatedMessageExceptionSet, RepeatedMessageSubsystemExceptionSet,
                   now, messagesToPrint, emitted, lastResult, run, Plugins, WorkQueue,
                   WorkQueueSize, WorkQueueOverrun, WorkerWakeEvent, LoggingThread,
                   Terminated, FlushEvent, batch, written, fate, sinceDetach, enqueued,
                   sentinelAt, stopMark, pluginVars, lifecycleVars, configVars>>

\* Stop returns, releasing the locks.
StopReturn ==
    /\ pc["controller"] = "return"
    /\ WorkQueueLock' = "none"
    /\ pc' = [pc EXCEPT !["controller"] = "idle"]
    /\ stopMark' = 0
    /\ afterStop' = IF afterStop.observed /\ ~afterStop.taken
                    THEN [ observed |-> TRUE, taken |-> TRUE, state |-> WorkerState ]
                    ELSE afterStop
    /\ UNCHANGED <<rmmVars, Plugins, WorkQueue, WorkQueueSize, WorkQueueOverrun,
                   WorkerWakeEvent, LoggingThread, Terminated, FlushEvent, batch,
                   written, fate, sinceDetach, enqueued, sentinelAt, pluginVars,
                   dispatchThreads, startsIgnored, configVars>>

\* while (!WorkerTerminator.IsTerminated())
WorkerLoop ==
    /\ pc["dispatcher"] = "loop"
    /\ pc' = [pc EXCEPT !["dispatcher"] = IF Terminated THEN "exited" ELSE "waiton"]
    /\ dispatchThreads' = IF Terminated THEN dispatchThreads - 1 ELSE dispatchThreads
    /\ UNCHANGED <<rmmVars, Plugins, WorkQueue, WorkQueueSize, WorkQueueOverrun,
                   WorkQueueLock, WorkerWakeEvent, LoggingThread, Terminated,
                   FlushEvent, batch, written, fate, sinceDetach, enqueued, sentinelAt,
                   stopMark, pluginVars, startsIgnored, afterStop, configVars>>

\* WorkerTerminator.WaitOn(WorkerWakeEvent.Get()): blocks until the event is
\* signalled or the worker is terminated; true if woken and not terminated. The
\* wait resets the event when it is the event that ends it.
WaitOn ==
    /\ pc["dispatcher"] = "waiton"
    /\ WorkerWakeEvent \/ Terminated
    /\ IF Terminated
       THEN /\ WorkerWakeEvent' \in { WorkerWakeEvent, FALSE }
            /\ pc' = [pc EXCEPT !["dispatcher"] = "loop"]
            /\ UNCHANGED pollPc
       ELSE /\ WorkerWakeEvent' = FALSE
            /\ pc' = [pc EXCEPT !["dispatcher"] = "process"]
            /\ pollPc' = "poll"
    /\ UNCHANGED <<BusyInWrite, RecentMessageMap, RepeatedMessageMap,
                   RepeatedMessageExceptionSet, RepeatedMessageSubsystemExceptionSet,
                   now, messagesToPrint, emitted, lastResult, run, Plugins, WorkQueue,
                   WorkQueueSize, WorkQueueOverrun, WorkQueueLock, LoggingThread,
                   Terminated, FlushEvent, batch, written, fate, sinceDetach, enqueued,
                   sentinelAt, stopMark, pluginVars, lifecycleVars, configVars>>

\* The thread in ProcessQueuedMessages: the dispatch thread, or Stop's caller.
Processing == IF pc["controller"] = "process" THEN "controller" ELSE "dispatcher"

\* pc after ProcessQueuedMessages returns to its caller.
Processed == [pc EXCEPT ![Processing] = IF Processing = "controller" THEN "return" ELSE "loop"]

\* RepeatedMessageManagerInstance.Poll(this), its locked block.
ProcessPoll ==
    /\ pc[Processing] = "process"
    /\ pollPc = "poll"
    /\ \E itArray \in PruneChoices(RecentMessageMap) :
          RecentMessageMap' = PruneRecent(RecentMessageMap, itArray)
    /\ RepeatedMessageMap' = PollScan(RepeatedMessageMap)
    /\ \E order \in Orderings(PollFinal(RepeatedMessageMap)
                                 \cup PollCapped(RepeatedMessageMap)) :
          messagesToPrint' = [i \in DOMAIN order |-> RepeatedMessageMap[order[i]]]
    /\ pollPc' = IF messagesToPrint' = <<>> THEN "detach" ELSE "print"
    /\ UNCHANGED <<BusyInWrite, RepeatedMessageExceptionSet,
                   RepeatedMessageSubsystemExceptionSet, now, emitted, lastResult, run,
                   workerVars, pluginVars, lifecycleVars, configVars>>

\* PrintDeferredAggregateMessage: BusyInWrite = true;
ProcessPrintBegin ==
    /\ pc[Processing] = "process"
    /\ pollPc = "print"
    /\ BusyInWrite' = TRUE
    /\ pollPc' = "write"
    /\ UNCHANGED <<RecentMessageMap, RepeatedMessageMap, RepeatedMessageExceptionSet,
                   RepeatedMessageSubsystemExceptionSet, now, messagesToPrint, emitted,
                   lastResult, run, workerVars, pluginVars, lifecycleVars, configVars>>

\* FlushDbgViewLogImmediately: the time stamp, the header (level and subsystem)
\* and the stream as one line for OutputDebugStringA. id is the number of the
\* Write call the line is of (0 for a summary), kept for the properties.
FlushDbgViewLogImmediately(id, subsystemName, messageLogLevel, stream) ==
    Append(DbgViewLog, [ id |-> id, header |-> <<messageLogLevel, subsystemName>>,
                         stream |-> stream ])

\* PrintDeferredAggregateMessage's Write, with relogged = false and
\* DangerouslyIgnoreQueueLimit: the locked block, and the wake and the line for
\* the debugger that follow it in the same thread.
ProcessPrintWrite ==
    /\ pc[Processing] = "process"
    /\ pollPc = "write"
    /\ CanLock(Processing)
    /\ LET m == Head(messagesToPrint)
           hm == HandleMessage(m.subsystemName, m.messageLogLevel, m.stream)
       IN  /\ RecentMessageMap' = hm.recent
           /\ RepeatedMessageMap' = hm.repeated
           /\ IF hm.result = "Aggregated" THEN
                  UNCHANGED <<WorkQueue, WorkQueueSize, WorkQueueOverrun,
                              WorkerWakeEvent, enqueued>>
              ELSE IF QueueFull("DangerouslyIgnoreQueueLimit") THEN
                  /\ WorkQueueOverrun' = WorkQueueOverrun + 1
                  /\ UNCHANGED <<WorkQueue, WorkQueueSize, WorkerWakeEvent, enqueued>>
              ELSE
                  /\ WorkQueue' = WorkQueueAdd(AggregateRecord(m)).queue
                  /\ WorkQueueSize' = WorkQueueAdd(AggregateRecord(m)).size
                  /\ enqueued' = Append(enqueued, AggregateRecord(m))
                  /\ WorkerWakeEvent' = (WorkerWakeEvent
                                            \/ NeedToWakeWorkerThread(WorkQueueSize'))
                  /\ UNCHANGED WorkQueueOverrun
           /\ DbgViewLog' =
                  IF hm.result # "Aggregated" /\ IsInDebugger
                  THEN FlushDbgViewLogImmediately(0, m.subsystemName, m.messageLogLevel,
                                                  AggregateText(m))
                  ELSE DbgViewLog
    /\ pollPc' = "clear"
    /\ UNCHANGED <<BusyInWrite, RepeatedMessageExceptionSet,
                   RepeatedMessageSubsystemExceptionSet, now, messagesToPrint, emitted,
                   lastResult, run, Plugins, WorkQueueLock, LoggingThread, Terminated,
                   FlushEvent, pc, batch, written, fate, sinceDetach, sentinelAt,
                   stopMark, pluginVars, lifecycleVars, GlobalMinimumLogLevel,
                   ChannelNodeHead, ConfiguratorPlugin, registryVars, lockVars,
                   IsInDebugger, linkVars>>

\* BusyInWrite = false; and the next message of the vector.
ProcessPrintEnd ==
    /\ pc[Processing] = "process"
    /\ pollPc = "clear"
    /\ BusyInWrite' = FALSE
    /\ messagesToPrint' = Tail(messagesToPrint)
    /\ pollPc' = IF Tail(messagesToPrint) = <<>> THEN "detach" ELSE "print"
    /\ UNCHANGED <<RecentMessageMap, RepeatedMessageMap, RepeatedMessageExceptionSet,
                   RepeatedMessageSubsystemExceptionSet, now, emitted, lastResult, run,
                   workerVars, pluginVars, lifecycleVars, configVars>>

\* A ProcessQueuedMessages that keeps the count of the lost messages.
OverrunAfterDetach_Kept == WorkQueueOverrun

\* lostCount = WorkQueueOverrun; WorkQueueOverrun = 0;
OverrunAfterDetach == 0

\* A ProcessQueuedMessages that leaves the queue as it is after taking the list.
DetachedQueue_Kept == WorkQueue

\* WorkQueueHead = WorkQueueTail = nullptr;
DetachedQueue == <<>>

\* queuedMsg->Next = message; message = queuedMsg;
WithLostRecord(message, lostCount) ==
    IF lostCount > 0 THEN <<LostRecord(lostCount)>> \o message ELSE message

\* The locked block that pulls the messages off the queue, the return when there
\* are none, and the lost-messages record.
ProcessDetach ==
    /\ pc[Processing] = "process"
    /\ pollPc = "detach"
    /\ CanLock(Processing)
    /\ WorkQueue' = DetachedQueue
    /\ WorkQueueOverrun' = OverrunAfterDetach
    /\ WorkQueueSize' = 0
    /\ sinceDetach' = 0
    /\ IF WorkQueue = <<>>
       THEN /\ batch' = <<>>
            /\ pollPc' = "idle"
            /\ pc' = Processed
       ELSE /\ batch' = WithLostRecord(WorkQueue, WorkQueueOverrun)
            /\ pollPc' = "dispatch"
            /\ UNCHANGED pc
    /\ UNCHANGED <<BusyInWrite, RecentMessageMap, RepeatedMessageMap,
                   RepeatedMessageExceptionSet, RepeatedMessageSubsystemExceptionSet,
                   now, messagesToPrint, emitted, lastResult, run, Plugins,
                   WorkQueueLock, WorkerWakeEvent, LoggingThread, Terminated,
                   FlushEvent, written, fate, enqueued, sentinelAt, stopMark,
                   pluginVars, lifecycleVars, configVars>>

\* A loop that hands every record to the plugins, the flush records too.
ProcessDispatch_RenderAll ==
    /\ pc[Processing] = "process"
    /\ pollPc = "dispatch"
    /\ LET message == Head(batch) IN
       /\ FlushEvent' = (FlushEvent \/ message.kind = "flush")
       /\ written' = Append(written, [ message |-> message, plugins |-> Plugins,
                                       thread |-> Processing ])
    /\ batch' = Tail(batch)
    /\ IF Tail(batch) = <<>>
       THEN /\ pollPc' = "idle"
            /\ pc' = Processed
       ELSE UNCHANGED <<pollPc, pc>>
    /\ UNCHANGED <<BusyInWrite, RecentMessageMap, RepeatedMessageMap,
                   RepeatedMessageExceptionSet, RepeatedMessageSubsystemExceptionSet,
                   now, messagesToPrint, emitted, lastResult, run, Plugins, WorkQueue,
                   WorkQueueSize, WorkQueueOverrun, WorkQueueLock, WorkerWakeEvent,
                   LoggingThread, Terminated, fate, sinceDetach, enqueued, sentinelAt,
                   stopMark, pluginVars, lifecycleVars, configVars>>

\* One round of the loop over the list: the flush event signalled, or the record
\* handed to every plugin; and the return after the last record.
ProcessDispatch ==
    /\ pc[Processing] = "process"
    /\ pollPc = "dispatch"
    /\ LET message == Head(batch) IN
       IF message.kind = "flush"
       THEN /\ FlushEvent' = TRUE
            /\ UNCHANGED written
       ELSE /\ written' = Append(written, [ message |-> message, plugins |-> Plugins,
                                            thread |-> Processing ])
            /\ UNCHANGED FlushEvent
    /\ batch' = Tail(batch)
    /\ IF Tail(batch) = <<>>
       THEN /\ pollPc' = "idle"
            /\ pc' = Processed
       ELSE UNCHANGED <<pollPc, pc>>
    /\ UNCHANGED <<BusyInWrite, RecentMessageMap, RepeatedMessageMap,
                   RepeatedMessageExceptionSet, RepeatedMessageSubsystemExceptionSet,
                   now, messagesToPrint, emitted, lastResult, run, Plugins, WorkQueue,
                   WorkQueueSize, WorkQueueOverrun, WorkQueueLock, WorkerWakeEvent,
                   LoggingThread, Terminated, fate, sinceDetach, enqueued, sentinelAt,
                   stopMark, pluginVars, lifecycleVars, configVars>>

WriteCall == \E stream \in WorkerTexts : Write("producer", stream)
WriteWakeCall == WriteWake("producer")

\* The worker after construction: the default plugins installed (no debugger, a
\* console window), and Start called, which started the thread.
Constructed ==
    /\ NoDebugger
    /\ NoLinks
    /\ RmmIdle
    /\ RegistryUnused
    /\ Plugins = { Plugin(1), Plugin(2) }
    /\ WorkQueue = <<>>
    /\ WorkQueueSize = 0
    /\ WorkQueueOverrun = 0
    /\ WorkQueueLock = "none"
    /\ WorkerWakeEvent = FALSE
    /\ LoggingThread = TRUE
    /\ Terminated = FALSE
    /\ FlushEvent = FALSE
    /\ pc = [t \in Threads |-> IF t = "dispatcher" THEN "loop" ELSE "idle"]
    /\ batch = <<>>
    /\ written = <<>>
    /\ fate = <<>>
    /\ sinceDetach = 0
    /\ enqueued = <<>>
    /\ sentinelAt = 0
    /\ stopMark = 0
    /\ dispatchThreads = 1
    /\ startsIgnored = 0
    /\ ConfiguratorIdle
    /\ OutputWorkerInstValid = TRUE

Init ==
    /\ Constructed
    /\ afterStop = NotObserved

Next ==
    \/ Elapse
    \/ WriteCall
    \/ WriteWakeCall
    \/ FlushCheck
    \/ FlushEnqueue
    \/ FlushReturn
    \/ Start
    \/ StartThreadFails
    \/ StopBegin
    \/ StopJoin
    \/ StopLock
    \/ StopReturn
    \/ WorkerLoop
    \/ WaitOn
    \/ ProcessPoll
    \/ ProcessPrintBegin
    \/ ProcessPrintWrite
    \/ ProcessPrintEnd
    \/ ProcessDetach
    \/ ProcessDispatch

Spec == Init /\ [][Next]_vars

\* Every step a thread takes on its own is taken if it stays possible, and the
\* clock advances; the calls of Write, Flush, Start and Stop are the callers' choice.
Fairness ==
    /\ WF_vars(Elapse)
    /\ WF_vars(WriteWakeCall)
    /\ WF_vars(FlushEnqueue)
    /\ WF_vars(FlushReturn)
    /\ WF_vars(StopJoin)
    /\ WF_vars(StopLock)
    /\ WF_vars(StopReturn)
    /\ WF_vars(WorkerLoop)
    /\ WF_vars(WaitOn)
    /\ WF_vars(ProcessPoll)
    /\ WF_vars(ProcessPrintBegin)
    /\ WF_vars(ProcessPrintWrite)
    /\ WF_vars(ProcessPrintEnd)
    /\ WF_vars(ProcessDetach)
    /\ WF_vars(ProcessDispatch)

FairSpec == Init /\ [][Next]_vars /\ Fairness

\* SpecStartStop: Start and Stop called in any order, also on a worker that is
\* already started or already stopped, with Write calls and the clock between
\* them, and the history of Stop kept.
InitStartStop ==
    /\ Constructed
    /\ afterStop = NoStopYet

NextStartStop ==
    \/ Elapse
    \/ WriteCall
    \/ WriteWakeCall
    \/ StartRunning
    \/ Start
    \/ StartThreadFails
    \/ StopBegin
    \/ StopJoin
    \/ StopLock
    \/ StopReturn
    \/ WorkerLoop
    \/ WaitOn
    \/ ProcessPoll
    \/ ProcessPrintBegin
    \/ ProcessPrintWrite
    \/ ProcessPrintEnd
    \/ ProcessDetach
    \/ ProcessDispatch

SpecStartStop == InitStartStop /\ [][NextStartStop]_vars

\* SpecStartFail: Start failing at either of its two places, with Flush, Write,
\* Stop and the dispatch thread, the clock standing still.
NextStartFail ==
    \/ WriteCall
    \/ FlushCheck
    \/ FlushEnqueue
    \/ FlushReturn
    \/ StartRunning
    \/ Start
    \/ StartThreadFails
    \/ StartTerminatorFails
    \/ StopBegin
    \/ StopJoin
    \/ StopLock
    \/ StopReturn
    \/ WorkerLoop
    \/ WaitOn
    \/ ProcessPoll
    \/ ProcessDetach
    \/ ProcessDispatch

SpecStartFail == Init /\ [][NextStartFail]_vars

\* SpecWake: two threads that call Write, the dispatch thread, Start and Stop,
\* under the same fairness; no Flush, whose SetEvent would wake the thread for them.
Producers == { "producer", "flusher" }

NextWake ==
    \/ Elapse
    \/ \E t \in Producers, stream \in WorkerTexts : Write(t, stream)
    \/ \E t \in Producers : WriteWake(t)
    \/ Start
    \/ StartThreadFails
    \/ StopBegin
    \/ StopJoin
    \/ StopLock
    \/ StopReturn
    \/ WorkerLoop
    \/ WaitOn
    \/ ProcessPoll
    \/ ProcessPrintBegin
    \/ ProcessPrintWrite
    \/ ProcessPrintEnd
    \/ ProcessDetach
    \/ ProcessDispatch

FairnessWake ==
    /\ WF_vars(Elapse)
    /\ \A t \in Producers : WF_vars(WriteWake(t))
    /\ WF_vars(StopJoin)
    /\ WF_vars(StopLock)
    /\ WF_vars(StopReturn)
    /\ WF_vars(WorkerLoop)
    /\ WF_vars(WaitOn)
    /\ WF_vars(ProcessPoll)
    /\ WF_vars(ProcessPrintBegin)
    /\ WF_vars(ProcessPrintWrite)
    /\ WF_vars(ProcessPrintEnd)
    /\ WF_vars(ProcessDetach)
    /\ WF_vars(ProcessDispatch)

SpecWake == Init /\ [][NextWake]_vars /\ FairnessWake

-----------------------------------------------------------------------------
(* SpecConfig: channels constructed, copied and destroyed, and the calls of *)
(* Channel and Configurator that set levels, one call at a time (each      *)
(* holds the channels lock), on a constructed worker.                      *)

\* ChannelRegisterNoLock: the node becomes the head.
ChannelRegisterNoLock(nodes, channelNode) ==
    <<channelNode>> \o nodes

\* A registration that leaves the new channel's level as it was constructed.
RestoreHeadLogLevel_Skipped(nodes) ==
    nodes

\* Configurator::RestoreChannelLogLevel(ChannelNode*), on the head node:
\* "Don't undo user calls to SetMinimumOutputLevelNoSave()".
RestoreHeadLogLevel(nodes) ==
    IF nodes[1].UserOverrodeMinimumOutputLevel = FALSE
    THEN [nodes EXCEPT ![1].Level = RestoredLevel(ConfiguratorPlugin, nodes[1].SubsystemName)]
    ELSE nodes

\* ConfiguratorRegisterC, and ChannelRegister under the channels lock.
ConfiguratorRegister(channelNode) ==
    IF OutputWorkerInstValid = FALSE
    THEN ChannelRegisterNoLock(ChannelNodeHead, channelNode)
    ELSE RestoreHeadLogLevel(ChannelRegisterNoLock(ChannelNodeHead, channelNode))

\* ChannelUnregisterNoLock: node i unlinked.
ChannelUnregisterNoLock(nodes, i) ==
    SubSeq(nodes, 1, i - 1) \o SubSeq(nodes, i + 1, Len(nodes))

\* Channel::Channel(const char* nameString)
ChannelConstruct(nameString) ==
    /\ Len(ChannelNodeHead) < MaxChannels
    /\ ChannelNodeHead' =
          ConfiguratorRegister(ChannelNode(nameString, DefaultMinimumOutputLevel, FALSE))
    /\ UNCHANGED <<rmmVars, workerVars, pluginVars, lifecycleVars,
                   GlobalMinimumLogLevel, ConfiguratorPlugin, registryVars, lockVars,
                   debuggerVars, linkVars>>

\* Channel::Channel(const Channel& other), other being the channel of node i.
ChannelCopy(i) ==
    /\ Len(ChannelNodeHead) < MaxChannels
    /\ ChannelNodeHead' =
          ConfiguratorRegister(ChannelNode(ChannelNodeHead[i].SubsystemName,
                                           ChannelNodeHead[i].Level,
                                           ChannelNodeHead[i].UserOverrodeMinimumOutputLevel))
    /\ UNCHANGED <<rmmVars, workerVars, pluginVars, lifecycleVars,
                   GlobalMinimumLogLevel, ConfiguratorPlugin, registryVars, lockVars,
                   debuggerVars, linkVars>>

\* Channel::~Channel of the channel of node i.
ChannelDestroy(i) ==
    /\ ChannelNodeHead' = ChannelUnregisterNoLock(ChannelNodeHead, i)
    /\ UNCHANGED <<rmmVars, workerVars, pluginVars, lifecycleVars,
                   GlobalMinimumLogLevel, ConfiguratorPlugin, registryVars, lockVars,
                   debuggerVars, linkVars>>

\* Channel::SetMinimumOutputLevelNoSave of the channel of node i.
SetMinimumOutputLevelNoSave(i, newLevel) ==
    /\ ChannelNodeHead' =
          Unpinned(ChannelNodeHead,
                   [ChannelNodeHead EXCEPT ![i].Level = newLevel,
                                           ![i].UserOverrodeMinimumOutputLevel = TRUE])
    /\ UNCHANGED <<rmmVars, workerVars, pluginVars, lifecycleVars,
                   GlobalMinimumLogLevel, ConfiguratorPlugin, registryVars, lockVars,
                   debuggerVars, linkVars>>

\* Configurator::OnChannelLevelChange: Plugin->SaveChannelLevel if there is a plugin.
OnChannelLevelChange(channelName, minimumOutputLevel) ==
    IF ConfiguratorPlugin.attached
    THEN [ConfiguratorPlugin EXCEPT !.levels[channelName] = minimumOutputLevel]
    ELSE ConfiguratorPlugin

\* Channel::SetMinimumOutputLevel of the channel of node i.
SetMinimumOutputLevel(i, newLevel) ==
    /\ ChannelNodeHead' =
          Unpinned(ChannelNodeHead,
                   [ChannelNodeHead EXCEPT ![i].Level = newLevel,
                                           ![i].UserOverrodeMinimumOutputLevel = TRUE])
    /\ ConfiguratorPlugin' = OnChannelLevelChange(ChannelNodeHead[i].SubsystemName, newLevel)
    /\ UNCHANGED <<rmmVars, workerVars, pluginVars, lifecycleVars,
                   GlobalMinimumLogLevel, registryVars, lockVars,
                   debuggerVars, linkVars>>

\* Configurator::SetGlobalMinimumLogLevel
SetGlobalMinimumLogLevel(level) ==
    /\ GlobalMinimumLogLevel' = level
    /\ ChannelNodeHead' = [ i \in DOMAIN ChannelNodeHead |->
                              [ChannelNodeHead[i] EXCEPT !.Level = level] ]
    /\ UNCHANGED <<rmmVars, workerVars, pluginVars, lifecycleVars,
                   ConfiguratorPlugin, registryVars, lockVars,
                   debuggerVars, linkVars>>

\* Configurator::SetChannel
SetChannel(channelName, level) ==
    /\ ChannelNodeHead' =
          [ i \in DOMAIN ChannelNodeHead |->
              IF ChannelNodeHead[i].SubsystemName = channelName
              THEN [SetChannelNoLock(ChannelNodeHead, channelName, level, TRUE)[i]
                       EXCEPT !.pinned = level]
              ELSE ChannelNodeHead[i] ]
    /\ UNCHANGED <<rmmVars, workerVars, pluginVars, lifecycleVars,
                   GlobalMinimumLogLevel, ConfiguratorPlugin, registryVars, lockVars,
                   debuggerVars, linkVars>>

\* Configurator::RestoreAllChannelLogLevels
RestoreAllChannelLogLevels ==
    /\ ChannelNodeHead' = RestoreAllChannelLogLevelsNoLock
    /\ UNCHANGED <<rmmVars, workerVars, pluginVars, lifecycleVars,
                   GlobalMinimumLogLevel, ConfiguratorPlugin, registryVars, lockVars,
                   debuggerVars, linkVars>>

\* Configurator::SetPlugin
SetPlugin(plugin) ==
    /\ ConfiguratorPlugin' = plugin
    /\ ChannelNodeHead' = Unpinned(ChannelNodeHead, RestoreFrom(ChannelNodeHead, plugin, 1))
    /\ UNCHANGED <<rmmVars, workerVars, pluginVars, lifecycleVars,
                   GlobalMinimumLogLevel, registryVars, lockVars,
                   debuggerVars, linkVars>>

ChannelCopyCall == \E i \in DOMAIN ChannelNodeHead : ChannelCopy(i)
ChannelDestroyCall == \E i \in DOMAIN ChannelNodeHead : ChannelDestroy(i)
SetMinimumOutputLevelNoSaveCall ==
    \E i \in DOMAIN ChannelNodeHead, newLevel \in ChannelLevels :
        SetMinimumOutputLevelNoSave(i, newLevel)
SetMinimumOutputLevelCall ==
    \E i \in DOMAIN ChannelNodeHead, newLevel \in ChannelLevels :
        SetMinimumOutputLevel(i, newLevel)
SetGlobalMinimumLogLevelCall ==
    \E level \in ChannelLevels : SetGlobalMinimumLogLevel(level)

NextConfig ==
    \/ \E nameString \in ChannelNames : ChannelConstruct(nameString)
    \/ ChannelCopyCall
    \/ ChannelDestroyCall
    \/ SetMinimumOutputLevelNoSaveCall
    \/ SetMinimumOutputLevelCall
    \/ SetGlobalMinimumLogLevelCall
    \/ \E channelName \in ChannelNames, level \in ChannelLevels :
          SetChannel(channelName, level)
    \/ RestoreAllChannelLogLevels
    \/ \E plugin \in ConfiguratorPlugins \cup { NoConfiguratorPlugin } : SetPlugin(plugin)

SpecConfig == Init /\ [][NextConfig]_vars

\* SpecBoot: the same calls from the start of the process, when no OutputWorker
\* exists yet. The calls that take the channels lock construct the worker in
\* OutputWorker::GetInstance() before anything else if it does not exist: they
\* are taken once OutputWorkerConstruct has been.

\* OutputWorker::OutputWorker: the default plugins, the flag, and Start, whose
\* thread is created or not.
OutputWorkerConstruct ==
    /\ OutputWorkerInstValid = FALSE
    /\ OutputWorkerInstValid' = TRUE
    /\ Plugins' = { Plugin(1), Plugin(2) }
    /\ ChannelNodeHead' = RestoreAllChannelLogLevelsNoLock
    /\ Terminated' = FALSE
    /\ \E created \in BOOLEAN :
          /\ LoggingThread' = created
          /\ dispatchThreads' = IF created THEN 1 ELSE 0
          /\ pc' = [pc EXCEPT !["dispatcher"] = IF created THEN "loop" ELSE "idle"]
    /\ UNCHANGED <<rmmVars, WorkQueue, WorkQueueSize, WorkQueueOverrun, WorkQueueLock,
                   WorkerWakeEvent, FlushEvent, batch, written, fate, sinceDetach,
                   enqueued, sentinelAt, stopMark, pluginVars, startsIgnored, afterStop,
                   GlobalMinimumLogLevel, ConfiguratorPlugin, registering, lockVars,
                   debuggerVars, linkVars>>

InitBoot ==
    /\ RmmIdle
    /\ RegistryUnused
    /\ WorkerInert
    /\ ConfiguratorIdle
    /\ OutputWorkerInstValid = FALSE

NextBoot ==
    \/ \E nameString \in ChannelNames : ChannelConstruct(nameString)
    \/ ChannelCopyCall
    \/ ChannelDestroyCall
    \/ SetMinimumOutputLevelNoSaveCall
    \/ OutputWorkerConstruct
    \/ OutputWorkerInstValid /\ SetMinimumOutputLevelCall
    \/ OutputWorkerInstValid /\ SetGlobalMinimumLogLevelCall
    \/ OutputWorkerInstValid /\ \E channelName \in ChannelNames, level \in ChannelLevels :
                                    SetChannel(channelName, level)
    \/ OutputWorkerInstValid /\ RestoreAllChannelLogLevels
    \/ OutputWorkerInstValid /\ \E plugin \in ConfiguratorPlugins \cup { NoConfiguratorPlugin } :
                                    SetPlugin(plugin)

SpecBoot == InitBoot /\ [][NextBoot]_vars

-----------------------------------------------------------------------------
(* SpecLocks: the calls of the worker followed lock by lock. Each call is  *)
(* the list of the steps that take or release a lock, wait for a thread or *)
(* an event, or touch the queue, in the order of its statements; what the  *)
(* calls compute of the messages is left to the other specifications. The  *)
(* locks are recursive (Locker, std::recursive_mutex).                     *)

LockNames == { "StartStopLock", "WorkQueueLock", "Mutex", "PluginsLock", "ChannelsLock" }

\* What the queue holds here: an ordinary record, the record of a Flush call,
\* the summaries of two entries of RepeatedMessageMap.
SummaryTags == { "s1", "s2" }
QueueTags == { "m", "f" } \cup SummaryTags

\* The entries a Poll call may find due, in the order its loop meets them: none,
\* or both.
DueEntries == { <<>>, <<"s2", "s1">> }

\* A step: op, and the lock, the record or the number of steps it is about.
LockStep(op, lock) == [ op |-> op, lock |-> lock, tag |-> "none", skip |-> 0 ]
TagStep(op, tag) == [ op |-> op, lock |-> "none", tag |-> tag, skip |-> 0 ]
SkipStep(op, skip) == [ op |-> op, lock |-> "none", tag |-> "none", skip |-> skip ]
PlainStep(op) == SkipStep(op, 0)

\* RepeatedMessageManager::HandleMessage: std::lock_guard lock(Mutex), held to
\* the return.
HandleMessageSteps == << LockStep("acquire", "Mutex"), LockStep("release", "Mutex") >>

\* OutputWorker::Write of a record that is queued or dropped at the limit: the
\* Locker of WorkQueueLock, HandleMessage, the add or the drop.
WriteSteps(tag) ==
    << LockStep("acquire", "WorkQueueLock") >> \o HandleMessageSteps
        \o << TagStep("enqueue", tag), LockStep("release", "WorkQueueLock") >>

\* OutputWorker::Write of a record that HandleMessage aggregates: the return
\* inside the locked block.
WriteAggregatedSteps ==
    << LockStep("acquire", "WorkQueueLock") >> \o HandleMessageSteps
        \o << LockStep("release", "WorkQueueLock") >>

\* PrintDeferredAggregateMessage: BusyInWrite = true, Write, BusyInWrite = false.
PrintDeferredAggregateMessageSteps(tag) ==
    << TagStep("print", tag) >> \o WriteSteps(tag) \o << PlainStep("printed") >>

\* A Poll whose prints are made in the reverse of the order collected.
RECURSIVE PrintAll_Reversed(_)
PrintAll_Reversed(tags) ==
    IF tags = <<>> THEN <<>>
    ELSE PrintAll_Reversed(Tail(tags)) \o PrintDeferredAggregateMessageSteps(Head(tags))

\* for (auto& repeatedMessage : messagesToPrint) PrintDeferredAggregateMessage(...)
RECURSIVE PrintAll(_)
PrintAll(tags) ==
    IF tags = <<>> THEN <<>>
    ELSE PrintDeferredAggregateMessageSteps(Head(tags)) \o PrintAll(Tail(tags))

\* A Poll that prints inside its locked block.
PollSteps_PrintLocked(due) ==
    << PlainStep("poll"), LockStep("acquire", "Mutex") >>
        \o [ i \in DOMAIN due |-> TagStep("collect", due[i]) ]
        \o PrintAll(due)
        \o << LockStep("release", "Mutex") >>

\* RepeatedMessageManager::Poll meeting the entries of due: the vector, the
\* locked block in which the due entries are put in the vector, and the prints
\* after it.
PollSteps(due) ==
    << PlainStep("poll"), LockStep("acquire", "Mutex") >>
        \o [ i \in DOMAIN due |-> TagStep("collect", due[i]) ]
        \o << LockStep("release", "Mutex") >>
        \o PrintAll(due)

\* A ProcessQueuedMessages that keeps WorkQueueLock while it hands the records
\* to the plugins.
ProcessQueuedMessagesSteps_LockKept(due) ==
    PollSteps(due)
        \o << LockStep("acquire", "WorkQueueLock"), PlainStep("detach"),
              SkipStep("ifnodata", 4),
              LockStep("acquire", "PluginsLock"), PlainStep("dispatch"),
              LockStep("release", "PluginsLock"),
              LockStep("release", "WorkQueueLock") >>

\* OutputWorker::ProcessQueuedMessages: Poll, the locked block that takes the
\* list off the queue, the return if there is none, and the locked block that
\* hands each record to each plugin.
ProcessQueuedMessagesSteps(due) ==
    PollSteps(due)
        \o << LockStep("acquire", "WorkQueueLock"), PlainStep("detach"),
              LockStep("release", "WorkQueueLock"),
              SkipStep("ifnodata", 3),
              LockStep("acquire", "PluginsLock"), PlainStep("dispatch"),
              LockStep("release", "PluginsLock") >>

\* OutputWorker::Stop: StartStopLock; if the thread is valid, Terminate, the
\* wait for the thread and Clear; WorkQueueLock held over ProcessQueuedMessages.
StopSteps(due) ==
    << LockStep("acquire", "StartStopLock"), SkipStep("ifnotvalid", 2),
       PlainStep("terminate"), PlainStep("join"),
       LockStep("acquire", "WorkQueueLock") >>
        \o ProcessQueuedMessagesSteps(due)
        \o << LockStep("release", "WorkQueueLock"),
              LockStep("release", "StartStopLock") >>

\* OutputWorker::Start: StartStopLock, the return if the thread is valid,
\* Initialize and CreateThread.
StartSteps ==
    << LockStep("acquire", "StartStopLock"), SkipStep("ifvalid", 1),
       PlainStep("create"), LockStep("release", "StartStopLock") >>

\* OutputWorker::Flush: the return if the thread is not valid, the locked block
\* that queues the record, the wait for its event.
FlushSteps ==
    << SkipStep("ifnotvalid", 4), LockStep("acquire", "WorkQueueLock"),
       TagStep("enqueue", "f"), LockStep("release", "WorkQueueLock"),
       PlainStep("waitflush") >>

\* OutputWorker::RemovePlugin, GetPlugin: a Locker of PluginsLock.
RemovePluginSteps ==
    << LockStep("acquire", "PluginsLock"), LockStep("release", "PluginsLock") >>

\* OutputWorker::AddPlugin: a Locker of PluginsLock, and RemovePlugin inside it.
AddPluginSteps ==
    << LockStep("acquire", "PluginsLock") >> \o RemovePluginSteps
        \o << LockStep("release", "PluginsLock") >>

\* ChannelRegister, ChannelUnregister and the calls of Configurator: a Locker of
\* the channels lock.
ChannelRegisterSteps ==
    << LockStep("acquire", "ChannelsLock"), LockStep("release", "ChannelsLock") >>

\* The variables the calls followed lock by lock leave alone.
lockQuiet == <<RecentMessageMap, RepeatedMessageMap, RepeatedMessageExceptionSet,
               RepeatedMessageSubsystemExceptionSet, now, pollPc, lastResult, run,
               Plugins, WorkQueueSize, WorkQueueOverrun, WorkQueueLock,
               WorkerWakeEvent, written, fate, sinceDetach, enqueued, sentinelAt,
               stopMark, pluginVars, lifecycleVars, GlobalMinimumLogLevel,
               ChannelNodeHead, ConfiguratorPlugin, registryVars,
               debuggerVars, linkVars>>

HeldBy(t) == { held[t][i] : i \in DOMAIN held[t] }

\* todo when thread t has taken its step, and n steps after it are left out.
Advance(t, n) == [todo EXCEPT ![t] = SubSeq(todo[t], n + 2, Len(todo[t]))]

AtStep(t, op) == todo[t] # <<>> /\ Head(todo[t]).op = op

\* A thread that is in no call makes the call of these steps.
Call(t, steps) ==
    /\ todo[t] = <<>>
    /\ todo' = [todo EXCEPT ![t] = steps]
    /\ UNCHANGED <<BusyInWrite, messagesToPrint, emitted, WorkQueue, LoggingThread,
                   Terminated, FlushEvent, pc, batch, held, lockQuiet>>

\* Locker::Locker, std::lock_guard: the thread waits while another thread holds
\* the lock.
AcquireStep(t) ==
    /\ AtStep(t, "acquire")
    /\ \A u \in Threads \ { t } : Head(todo[t]).lock \notin HeldBy(u)
    /\ held' = [held EXCEPT ![t] = Append(@, Head(todo[t]).lock)]
    /\ todo' = Advance(t, 0)
    /\ UNCHANGED <<BusyInWrite, messagesToPrint, emitted, WorkQueue, LoggingThread,
                   Terminated, FlushEvent, pc, batch, lockQuiet>>

\* The end of the Locker's scope: the lock taken last is released first.
ReleaseStep(t) ==
    /\ AtStep(t, "release")
    /\ held[t] # <<>>
    /\ held[t][Len(held[t])] = Head(todo[t]).lock
    /\ held' = [held EXCEPT ![t] = SubSeq(@, 1, Len(@) - 1)]
    /\ todo' = Advance(t, 0)
    /\ UNCHANGED <<BusyInWrite, messagesToPrint, emitted, WorkQueue, LoggingThread,
                   Terminated, FlushEvent, pc, batch, lockQuiet>>

\* WorkQueueAdd of Write and of Flush; Write drops an ordinary record at
\* WorkQueueLimit. Flush makes its event before it queues the record.
EnqueueStep(t) ==
    /\ AtStep(t, "enqueue")
    /\ LET tag == Head(todo[t]).tag
       IN  /\ WorkQueue' = IF tag = "m" /\ Len(WorkQueue) >= WorkQueueLimit
                            THEN WorkQueue
                            ELSE Append(WorkQueue, tag)
           /\ emitted' = IF tag \in SummaryTags THEN Append(emitted, tag) ELSE emitted
           /\ FlushEvent' = IF tag = "f" THEN FALSE ELSE FlushEvent
    /\ todo' = Advance(t, 0)
    /\ UNCHANGED <<BusyInWrite, messagesToPrint, LoggingThread, Terminated, pc,
                   batch, held, lockQuiet>>

\* std::vector<RepeatedMessage> messagesToPrint; emitted is the history of what
\* this Poll call has queued.
PollStep(t) ==
    /\ AtStep(t, "poll")
    /\ messagesToPrint' = <<>>
    /\ emitted' = <<>>
    /\ todo' = Advance(t, 0)
    /\ UNCHANGED <<BusyInWrite, WorkQueue, LoggingThread, Terminated, FlushEvent,
                   pc, batch, held, lockQuiet>>

\* messagesToPrint.emplace_back
CollectStep(t) ==
    /\ AtStep(t, "collect")
    /\ messagesToPrint' = Append(messagesToPrint, Head(todo[t]).tag)
    /\ todo' = Advance(t, 0)
    /\ UNCHANGED <<BusyInWrite, emitted, WorkQueue, LoggingThread, Terminated,
                   FlushEvent, pc, batch, held, lockQuiet>>

\* BusyInWrite = true; and the call of Write
PrintStep(t) ==
    /\ AtStep(t, "print")
    /\ BusyInWrite' = TRUE
    /\ todo' = Advance(t, 0)
    /\ UNCHANGED <<messagesToPrint, emitted, WorkQueue, LoggingThread, Terminated,
                   FlushEvent, pc, batch, held, lockQuiet>>

\* BusyInWrite = false;
PrintedStep(t) ==
    /\ AtStep(t, "printed")
    /\ BusyInWrite' = FALSE
    /\ todo' = Advance(t, 0)
    /\ UNCHANGED <<messagesToPrint, emitted, WorkQueue, LoggingThread, Terminated,
                   FlushEvent, pc, batch, held, lockQuiet>>

\* message = WorkQueueHead; WorkQueueHead = WorkQueueTail = nullptr;
DetachStep(t) ==
    /\ AtStep(t, "detach")
    /\ batch' = WorkQueue
    /\ WorkQueue' = <<>>
    /\ todo' = Advance(t, 0)
    /\ UNCHANGED <<BusyInWrite, messagesToPrint, emitted, LoggingThread, Terminated,
                   FlushEvent, pc, held, lockQuiet>>

\* The tests that leave steps out: if (message == nullptr) return; and the
\* tests of LoggingThread.IsValid() in Start, Stop and Flush.
BranchStep(t) ==
    /\ \/ /\ AtStep(t, "ifnodata")
          /\ todo' = Advance(t, IF batch = <<>> THEN Head(todo[t]).skip ELSE 0)
       \/ /\ AtStep(t, "ifnotvalid")
          /\ todo' = Advance(t, IF ~LoggingThread THEN Head(todo[t]).skip ELSE 0)
       \/ /\ AtStep(t, "ifvalid")
          /\ todo' = Advance(t, IF LoggingThread THEN Head(todo[t]).skip ELSE 0)
    /\ UNCHANGED <<BusyInWrite, messagesToPrint, emitted, WorkQueue, LoggingThread,
                   Terminated, FlushEvent, pc, batch, held, lockQuiet>>

\* One turn of "for each log message": the event of a Flush record is set, any
\* other record is written by each plugin.
DispatchStep(t) ==
    /\ AtStep(t, "dispatch")
    /\ batch # <<>>
    /\ batch' = Tail(batch)
    /\ FlushEvent' = IF Head(batch) = "f" THEN TRUE ELSE FlushEvent
    /\ todo' = IF Tail(batch) = <<>> THEN Advance(t, 0) ELSE todo
    /\ UNCHANGED <<BusyInWrite, messagesToPrint, emitted, WorkQueue, LoggingThread,
                   Terminated, pc, held, lockQuiet>>

\* WorkerTerminator.Terminate()
TerminateStep(t) ==
    /\ AtStep(t, "terminate")
    /\ Terminated' = TRUE
    /\ todo' = Advance(t, 0)
    /\ UNCHANGED <<BusyInWrite, messagesToPrint, emitted, WorkQueue, LoggingThread,
                   FlushEvent, pc, batch, held, lockQuiet>>

\* ::WaitForSingleObject(LoggingThread.Get(), INFINITE); LoggingThread.Clear();
JoinStep(t) ==
    /\ AtStep(t, "join")
    /\ pc["dispatcher"] = "exited"
    /\ LoggingThread' = FALSE
    /\ pc' = [pc EXCEPT !["dispatcher"] = "idle"]
    /\ todo' = Advance(t, 0)
    /\ UNCHANGED <<BusyInWrite, messagesToPrint, emitted, WorkQueue, Terminated,
                   FlushEvent, batch, held, lockQuiet>>

\* WorkerTerminator.Initialize() and CreateThread, which starts the thread or
\* fails.
CreateStep(t) ==
    /\ AtStep(t, "create")
    /\ Terminated' = FALSE
    /\ \E created \in BOOLEAN :
          /\ LoggingThread' = created
          /\ pc' = [pc EXCEPT !["dispatcher"] = IF created THEN "loop" ELSE @]
    /\ todo' = Advance(t, 0)
    /\ UNCHANGED <<BusyInWrite, messagesToPrint, emitted, WorkQueue, FlushEvent,
                   batch, held, lockQuiet>>

\* ::WaitForSingleObject(flushEvent.Get(), INFINITE) of Flush
WaitFlushStep(t) ==
    /\ AtStep(t, "waitflush")
    /\ FlushEvent
    /\ FlushEvent' = FALSE
    /\ todo' = Advance(t, 0)
    /\ UNCHANGED <<BusyInWrite, messagesToPrint, emitted, WorkQueue, LoggingThread,
                   Terminated, pc, batch, held, lockQuiet>>

\* The dispatch thread between two calls of ProcessQueuedMessages: it leaves
\* its loop if the worker is terminated, and else calls ProcessQueuedMessages
\* when its wait ends (SpecWake follows the wait; here it may end at any time).
WorkerTurn ==
    /\ pc["dispatcher"] = "loop"
    /\ todo["dispatcher"] = <<>>
    /\ IF Terminated
       THEN /\ pc' = [pc EXCEPT !["dispatcher"] = "exited"]
            /\ UNCHANGED todo
       ELSE /\ \E due \in DueEntries :
                  todo' = [todo EXCEPT !["dispatcher"] = ProcessQueuedMessagesSteps(due)]
            /\ UNCHANGED pc
    /\ UNCHANGED <<BusyInWrite, messagesToPrint, emitted, WorkQueue, LoggingThread,
                   Terminated, FlushEvent, batch, held, lockQuiet>>

\* The threads that call the worker, and the thread that calls Start and Stop.
Callers == { "producer", "flusher" }

NextLocks ==
    \/ Call("producer", WriteSteps("m"))
    \/ Call("producer", WriteAggregatedSteps)
    \/ Call("producer", AddPluginSteps)
    \/ Call("producer", RemovePluginSteps)
    \/ \E t \in Callers : Call(t, ChannelRegisterSteps)
    \/ Call("flusher", FlushSteps)
    \/ Call("controller", StartSteps)
    \/ \E due \in DueEntries : Call("controller", StopSteps(due))
    \/ WorkerTurn
    \/ \E t \in Threads :
          \/ AcquireStep(t)
          \/ ReleaseStep(t)
          \/ EnqueueStep(t)
          \/ PollStep(t)
          \/ CollectStep(t)
          \/ PrintStep(t)
          \/ PrintedStep(t)
          \/ DetachStep(t)
          \/ BranchStep(t)
          \/ DispatchStep(t)
          \/ TerminateStep(t)
          \/ JoinStep(t)
          \/ CreateStep(t)
          \/ WaitFlushStep(t)

SpecLocks == Init /\ [][NextLocks]_vars

-----------------------------------------------------------------------------
(* SpecRegistry: channels constructed and destroyed by two threads from    *)
(* the start of the process, a third thread constructing the OutputWorker  *)
(* and calling Stop and Start, each call followed access by access to the  *)
(* registry links. No thread calls Write: the dispatch thread waits until  *)
(* it is terminated. The destruction of the OutputWorker is not followed.  *)

\* The channel each thread constructs and destroys.
ChannelOf(t) == IF t = "producer" THEN "a" ELSE "b"

\* ConfiguratorRegisterC, ConfiguratorUnregisterC: the test of
\* OutputWorkerInstValid, which chooses the steps that follow.
ConfiguratorRegisterCSteps(name) == << TagStep("registerC", name) >>
ConfiguratorUnregisterCSteps(name) == << TagStep("unregisterC", name) >>

\* ChannelRegisterNoLock: the head is read and the nodes are linked, then the
\* head is written.
ChannelRegisterNoLockSteps(name) == << TagStep("link", name), PlainStep("publish") >>

\* ChannelRegister: OutputWorker::GetInstance(), the Locker of the channels
\* lock, ChannelRegisterNoLock, RestoreChannelLogLevel(channelNode).
ChannelRegisterLockedSteps(name) ==
    << PlainStep("getinstance"), LockStep("acquire", "ChannelsLock") >>
        \o ChannelRegisterNoLockSteps(name)
        \o << TagStep("restore", name), LockStep("release", "ChannelsLock") >>

\* ChannelUnregisterNoLock: the links around the node are read, then written.
ChannelUnregisterNoLockSteps(name) == << TagStep("unlink", name), PlainStep("unpublish") >>

\* ChannelUnregister
ChannelUnregisterLockedSteps(name) ==
    << PlainStep("getinstance"), LockStep("acquire", "ChannelsLock") >>
        \o ChannelUnregisterNoLockSteps(name)
        \o << LockStep("release", "ChannelsLock") >>

\* OutputWorker::Start with the loop of RestoreAllChannelLogLevelsNoLock, which
\* walks the registry from the head to the last node.
StartRestoringSteps ==
    << LockStep("acquire", "StartStopLock"), SkipStep("ifvalid", 3),
       PlainStep("traverse"), PlainStep("traversed"), PlainStep("create"),
       LockStep("release", "StartStopLock") >>

\* OutputWorker::GetInstance() called first: OutputWorker::OutputWorker, which
\* installs the plugins, sets OutputWorkerInstValid and calls Start.
OutputWorkerSteps ==
    << PlainStep("valid") >> \o StartRestoringSteps \o << PlainStep("constructed") >>

\* The variables the accesses to the registry leave alone.
registryQuiet == <<rmmVars, WorkQueue, WorkQueueSize, WorkQueueOverrun, WorkQueueLock,
                   WorkerWakeEvent, LoggingThread, Terminated, FlushEvent, batch,
                   written, fate, sinceDetach, enqueued, sentinelAt, stopMark,
                   pluginVars, lifecycleVars, GlobalMinimumLogLevel,
                   ConfiguratorPlugin, held, debuggerVars, linkVars>>

\* A thread that is in no call makes a call that begins with these steps.
RegistryCall(t, steps) ==
    /\ todo[t] = <<>>
    /\ todo' = [todo EXCEPT ![t] = steps]
    /\ UNCHANGED <<ChannelNodeHead, registryVars, Plugins, pc, registryQuiet>>

\* if (OutputWorkerInstValid == false) ... else ...
RegisterTestStep(t) ==
    /\ \/ /\ AtStep(t, "registerC")
          /\ todo' = [todo EXCEPT ![t] =
                         IF OutputWorkerInstValid = FALSE
                         THEN ChannelRegisterNoLockSteps(Head(todo[t]).tag)
                         ELSE ChannelRegisterLockedSteps(Head(todo[t]).tag)]
       \/ /\ AtStep(t, "unregisterC")
          /\ todo' = [todo EXCEPT ![t] =
                         IF OutputWorkerInstValid = FALSE
                         THEN ChannelUnregisterNoLockSteps(Head(todo[t]).tag)
                         ELSE ChannelUnregisterLockedSteps(Head(todo[t]).tag)]
    /\ UNCHANGED <<ChannelNodeHead, registryVars, Plugins, pc, registryQuiet>>

\* static OutputWorker worker; a thread that meets the worker under construction
\* in another thread waits until it is constructed.
GetInstanceStep(t) ==
    /\ AtStep(t, "getinstance")
    /\ pc["controller"] = "live"
    /\ todo' = Advance(t, 0)
    /\ UNCHANGED <<ChannelNodeHead, registryVars, Plugins, pc, registryQuiet>>

\* ChannelRegisterNoLock up to the write of the head: if (ChannelNodeHead),
\* ChannelNodeHead->Prev = channelNode, channelNode->Next = ChannelNodeHead
LinkStep(t) ==
    /\ AtStep(t, "link")
    /\ registering' = [registering EXCEPT ![t] =
          [ node |-> ChannelNode(Head(todo[t]).tag, DefaultMinimumOutputLevel, FALSE),
            head |-> ChannelNodeHead ]]
    /\ todo' = Advance(t, 0)
    /\ UNCHANGED <<ChannelNodeHead, OutputWorkerInstValid, Plugins, pc, registryQuiet>>

\* ChannelNodeHead = channelNode: the list is the node and what the thread found
\* behind the head.
PublishStep(t) ==
    /\ AtStep(t, "publish")
    /\ ChannelNodeHead' = ChannelRegisterNoLock(registering[t].head, registering[t].node)
    /\ registering' = [registering EXCEPT ![t] = NotRegistering]
    /\ todo' = Advance(t, 0)
    /\ UNCHANGED <<OutputWorkerInstValid, Plugins, pc, registryQuiet>>

\* Configurator::RestoreChannelLogLevel(ChannelNode*) of ChannelRegister
RestoreStep(t) ==
    /\ AtStep(t, "restore")
    /\ ChannelNodeHead' =
          RestoreChannelLogLevel(ChannelNodeHead, ConfiguratorPlugin, Head(todo[t]).tag)
    /\ todo' = Advance(t, 0)
    /\ UNCHANGED <<registryVars, Plugins, pc, registryQuiet>>

\* ChannelUnregisterNoLock up to its writes: the node is compared with the head,
\* its Prev and Next are read.
UnlinkStep(t) ==
    /\ AtStep(t, "unlink")
    /\ registering' = [registering EXCEPT ![t] =
          [ node |-> Head(todo[t]).tag, head |-> ChannelNodeHead ]]
    /\ todo' = Advance(t, 0)
    /\ UNCHANGED <<ChannelNodeHead, OutputWorkerInstValid, Plugins, pc, registryQuiet>>

\* The writes of ChannelUnregisterNoLock: the list is what the thread found,
\* without the node.
UnpublishStep(t) ==
    /\ AtStep(t, "unpublish")
    /\ ChannelNodeHead' =
          SelectSeq(registering[t].head,
                    LAMBDA n : n.SubsystemName # registering[t].node)
    /\ registering' = [registering EXCEPT ![t] = NotRegistering]
    /\ todo' = Advance(t, 0)
    /\ UNCHANGED <<OutputWorkerInstValid, Plugins, pc, registryQuiet>>

\* InstallDefaultOutputPlugins(); OutputWorkerInstValid = true;
ValidStep(t) ==
    /\ AtStep(t, "valid")
    /\ Plugins' = { Plugin(1), Plugin(2) }
    /\ OutputWorkerInstValid' = TRUE
    /\ pc' = [pc EXCEPT ![t] = "construct"]
    /\ todo' = Advance(t, 0)
    /\ UNCHANGED <<ChannelNodeHead, registering, registryQuiet>>

\* The constructor returns: GetInstance returns in every thread.
ConstructedStep(t) ==
    /\ AtStep(t, "constructed")
    /\ pc' = [pc EXCEPT ![t] = "live"]
    /\ todo' = Advance(t, 0)
    /\ UNCHANGED <<ChannelNodeHead, registryVars, Plugins, registryQuiet>>

\* RestoreAllChannelLogLevelsNoLock reads ChannelNodeHead
TraverseStep(t) ==
    /\ AtStep(t, "traverse")
    /\ todo' = Advance(t, 0)
    /\ UNCHANGED <<ChannelNodeHead, registryVars, Plugins, pc, registryQuiet>>

\* ... and has walked the list to its last node, restoring the levels.
TraversedStep(t) ==
    /\ AtStep(t, "traversed")
    /\ ChannelNodeHead' = RestoreAllChannelLogLevelsNoLock
    /\ todo' = Advance(t, 0)
    /\ UNCHANGED <<registryVars, Plugins, pc, registryQuiet>>

\* Thread t has read links of the registry and is to read or write more.
InRegistry(t) ==
    AtStep(t, "publish") \/ AtStep(t, "unpublish") \/ AtStep(t, "traversed")

Registered(name) ==
    \E i \in DOMAIN ChannelNodeHead : ChannelNodeHead[i].SubsystemName = name

NextRegistry ==
    \/ \E t \in Callers :
          /\ ~Registered(ChannelOf(t))
          /\ RegistryCall(t, ConfiguratorRegisterCSteps(ChannelOf(t)))
    \/ /\ Registered(ChannelOf("producer"))
       /\ RegistryCall("producer", ConfiguratorUnregisterCSteps(ChannelOf("producer")))
    \/ /\ pc["controller"] = "idle"
       /\ RegistryCall("controller", OutputWorkerSteps)
    \/ /\ pc["controller"] = "live"
       /\ RegistryCall("controller", StartRestoringSteps)
    \/ /\ pc["controller"] = "live"
       /\ RegistryCall("controller", StopSteps(<<>>))
    \/ Terminated /\ WorkerTurn
    \/ \E t \in Threads :
          \/ RegisterTestStep(t)
          \/ GetInstanceStep(t)
          \/ LinkStep(t)
          \/ PublishStep(t)
          \/ RestoreStep(t)
          \/ UnlinkStep(t)
          \/ UnpublishStep(t)
          \/ ValidStep(t)
          \/ ConstructedStep(t)
          \/ TraverseStep(t)
          \/ TraversedStep(t)
          \/ AcquireStep(t)
          \/ ReleaseStep(t)
          \/ PollStep(t)
          \/ DetachStep(t)
          \/ BranchStep(t)
          \/ TerminateStep(t)
          \/ JoinStep(t)
          \/ CreateStep(t)

SpecRegistry == InitBoot /\ [][NextRegistry]_vars

-----------------------------------------------------------------------------
(* SpecDebugger: Write with its relogged and option arguments, on a worker  *)
(* constructed with or without a debugger attached, and the dispatch       *)
(* thread. A Write call is its locked block, then what it does after the   *)
(* lock is released, kept in todo: the wake, the line for the debugger.    *)

WriteOptions == { "Default", "DangerouslyIgnoreQueueLimit" }

\* A Write that keeps the records it drops from the debugger.
WriteUnlockedSteps_QueuedOnly(id, stream, relogged, dropped, needToWakeWorkerThread) ==
    (IF ~dropped /\ needToWakeWorkerThread THEN << PlainStep("wake") >> ELSE << >>)
        \o (IF ~relogged /\ IsInDebugger /\ ~dropped
            THEN << TagStep("dbgview", <<id, stream>>) >> ELSE << >>)

\* What Write does after its locked block.
WriteUnlockedSteps(id, stream, relogged, dropped, needToWakeWorkerThread) ==
    (IF ~dropped /\ needToWakeWorkerThread THEN << PlainStep("wake") >> ELSE << >>)
        \o (IF ~relogged /\ IsInDebugger
            THEN << TagStep("dbgview", <<id, stream>>) >> ELSE << >>)

\* A Write that goes on after an aggregated message as after a dropped one.
WriteAggregatedReturn_GoesOn(id, stream, relogged) ==
    WriteUnlockedSteps(id, stream, relogged, TRUE, FALSE)

\* if (HandleMessage(...) == HandleResult::Aggregated) return;
WriteAggregatedReturn(id, stream, relogged) ==
    << >>

\* Write's locked block: classify, then drop or queue; fate keeps the arguments
\* of the call and what became of it.
WriteLocked(t, stream, relogged, option) ==
    /\ todo[t] = <<>>
    /\ CanLock(t)
    /\ Len(fate) < MaxWrites
    /\ LET hm == HandleMessage(<<75>>, "Info", stream)
           id == Len(fate) + 1
           call(f) == [ fate |-> f, stream |-> stream, relogged |-> relogged,
                        option |-> option ]
       IN
       /\ RecentMessageMap' = hm.recent
       /\ RepeatedMessageMap' = hm.repeated
       /\ IF hm.result = "Aggregated" THEN
              /\ fate' = Append(fate, call("aggregated"))
              /\ todo' = [todo EXCEPT ![t] = WriteAggregatedReturn(id, stream, relogged)]
              /\ UNCHANGED <<WorkQueue, WorkQueueSize, WorkQueueOverrun>>
          ELSE IF QueueFull(option) THEN
              /\ WorkQueueOverrun' = WorkQueueOverrun + 1
              /\ fate' = Append(fate, call("dropped"))
              /\ todo' = [todo EXCEPT ![t] =
                             WriteUnlockedSteps(id, stream, relogged, TRUE, FALSE)]
              /\ UNCHANGED <<WorkQueue, WorkQueueSize>>
          ELSE
              /\ WorkQueue' = WorkQueueAdd(MessageRecord(id, stream)).queue
              /\ WorkQueueSize' = WorkQueueAdd(MessageRecord(id, stream)).size
              /\ fate' = Append(fate, call("queued"))
              /\ todo' = [todo EXCEPT ![t] =
                             WriteUnlockedSteps(id, stream, relogged, FALSE,
                                                NeedToWakeWorkerThread(WorkQueueSize'))]
              /\ UNCHANGED WorkQueueOverrun
    /\ UNCHANGED <<BusyInWrite, RepeatedMessageExceptionSet,
                   RepeatedMessageSubsystemExceptionSet, now, messagesToPrint, pollPc,
                   emitted, lastResult, run, Plugins, WorkQueueLock, WorkerWakeEvent,
                   LoggingThread, Terminated, FlushEvent, pc, batch, written,
                   sinceDetach, enqueued, sentinelAt, stopMark, pluginVars,
                   lifecycleVars, GlobalMinimumLogLevel, ChannelNodeHead,
                   ConfiguratorPlugin, registryVars, held, debuggerVars, linkVars>>

\* if (!dropped && needToWakeWorkerThread) ::SetEvent(WorkerWakeEvent.Get());
WriteSetEvent(t) ==
    /\ AtStep(t, "wake")
    /\ WorkerWakeEvent' = TRUE
    /\ todo' = Advance(t, 0)
    /\ UNCHANGED <<rmmVars, Plugins, WorkQueue, WorkQueueSize, WorkQueueOverrun,
                   WorkQueueLock, LoggingThread, Terminated, FlushEvent, pc, batch,
                   written, fate, sinceDetach, enqueued, sentinelAt, stopMark,
                   pluginVars, lifecycleVars, GlobalMinimumLogLevel, ChannelNodeHead,
                   ConfiguratorPlugin, registryVars, held, debuggerVars, linkVars>>

\* if (!relogged) if (IsInDebugger) FlushDbgViewLogImmediately(...); and Write returns.
WriteDbgView(t) ==
    /\ AtStep(t, "dbgview")
    /\ DbgViewLog' = FlushDbgViewLogImmediately(Head(todo[t]).tag[1], <<75>>, "Info",
                                                Head(todo[t]).tag[2])
    /\ todo' = Advance(t, 0)
    /\ UNCHANGED <<rmmVars, workerVars, pluginVars, lifecycleVars,
                   GlobalMinimumLogLevel, ChannelNodeHead, ConfiguratorPlugin,
                   registryVars, held, IsInDebugger, linkVars>>

\* OutputWorker::OutputWorker: IsInDebugger = IsDebuggerAttached(); the default
\* plugins (the DbgView plugin only without a debugger; a console window); Start.
InitDebugger ==
    /\ IsInDebugger \in BOOLEAN
    /\ DbgViewLog = <<>>
    /\ NoLinks
    /\ RmmIdle
    /\ RegistryUnused
    /\ Plugins = IF IsInDebugger THEN { Plugin(2) } ELSE { Plugin(1), Plugin(2) }
    /\ WorkQueue = <<>>
    /\ WorkQueueSize = 0
    /\ WorkQueueOverrun = 0
    /\ WorkQueueLock = "none"
    /\ WorkerWakeEvent = FALSE
    /\ LoggingThread = TRUE
    /\ Terminated = FALSE
    /\ FlushEvent = FALSE
    /\ pc = [t \in Threads |-> IF t = "dispatcher" THEN "loop" ELSE "idle"]
    /\ batch = <<>>
    /\ written = <<>>
    /\ fate = <<>>
    /\ sinceDetach = 0
    /\ enqueued = <<>>
    /\ sentinelAt = 0
    /\ stopMark = 0
    /\ dispatchThreads = 1
    /\ startsIgnored = 0
    /\ afterStop = NotObserved
    /\ ConfiguratorIdle
    /\ OutputWorkerInstValid = TRUE

NextDebugger ==
    \/ Elapse
    \/ \E stream \in WorkerTexts, relogged \in BOOLEAN, option \in WriteOptions :
          WriteLocked("producer", stream, relogged, option)
    \/ WriteSetEvent("producer")
    \/ WriteDbgView("producer")
    \/ WorkerLoop
    \/ WaitOn
    \/ ProcessPoll
    \/ ProcessPrintBegin
    \/ ProcessPrintWrite
    \/ ProcessPrintEnd
    \/ ProcessDetach
    \/ ProcessDispatch

SpecDebugger == InitDebugger /\ [][NextDebugger]_vars

-----------------------------------------------------------------------------
(* SpecLinks: the registry followed pointer by pointer. Two threads        *)
(* construct and destroy channels before any call has constructed the      *)
(* OutputWorker, so that ConfiguratorRegisterC and ConfiguratorUnregisterC *)
(* call ChannelRegisterNoLock and ChannelUnregisterNoLock with no lock;    *)
(* every statement of the two functions is a step of the calling thread.   *)
(* ChannelNodeHead keeps the nodes of the channels that are registered and *)
(* not unregistered, in the order their registrations wrote the head, the  *)
(* newest first.                                                           *)

LinkNames == { "a", "b", "c" }

\* The channels each thread constructs.
ChannelsOf(t) == IF t = "producer" THEN { "a", "c" } ELSE { "b" }

\* A ChannelNode of a Channel that is not constructed yet.
NoNode == [ Next |-> "unset", Prev |-> "unset", life |-> "none" ]

\* The variables the statements of the registry leave alone.
linksQuiet == <<rmmVars, Plugins, WorkQueue, WorkQueueSize, WorkQueueOverrun,
                WorkQueueLock, WorkerWakeEvent, LoggingThread, Terminated, FlushEvent,
                batch, written, fate, sinceDetach, enqueued, sentinelAt, stopMark,
                pluginVars, lifecycleVars, GlobalMinimumLogLevel, ConfiguratorPlugin,
                OutputWorkerInstValid, held, debuggerVars>>

\* The statements of ChannelRegisterNoLock after its test, in its two branches.
ChannelRegisterNoLockThen(name) ==
    << TagStep("head->Prev=node", name), TagStep("node->Next=head", name),
       TagStep("node->Prev=null", name), TagStep("head=node", name) >>
ChannelRegisterNoLockElse(name) ==
    << TagStep("head=node", name), TagStep("node->Next=null", name),
       TagStep("node->Prev=null", name) >>

\* The statements of ChannelUnregisterNoLock after its test, in its two branches.
ChannelUnregisterNoLockThen(name) ==
    << TagStep("head=node->Next", name), TagStep("if(head)", name) >>
ChannelUnregisterNoLockElse(name) ==
    << TagStep("prev->Next=next", name), TagStep("if(next)", name) >>

\* The value a statement reads from ChannelNodeHead: the pointer as it is, or
\* the value the thread read from it earlier in the call and kept.
HeadRead(t) == { ChannelNodeHeadPointer, registering[t].head }

\* The registered channels once the registration of the node has written the head.
RegisteredWith(name) ==
    ChannelRegisterNoLock(ChannelNodeHead, ChannelNode(name, DefaultMinimumOutputLevel, FALSE))

\* pointer->field = value, pointer being a node
Store(pointer, field, value) == [ChannelNodeFields EXCEPT ![pointer][field] = value]

\* Thread t executes the statement pointer->field = value. A write through a
\* null pointer ends the process, or is left out by the build.
StoreStep(t, op, pointer, field, value) ==
    /\ AtStep(t, op)
    /\ IF pointer \in LinkNames
       THEN /\ ChannelNodeFields' = Store(pointer, field, value)
            /\ todo' = Advance(t, 0)
            /\ pc' = pc
       ELSE /\ ChannelNodeFields' = ChannelNodeFields
            /\ \/ /\ pc' = [u \in Threads |-> "crashed"]
                  /\ todo' = [u \in Threads |-> <<>>]
               \/ /\ pc' = pc
                  /\ todo' = Advance(t, 0)
    /\ UNCHANGED <<ChannelNodeHeadPointer, ChannelNodeHead, registering, linksQuiet>>

\* Channel::Channel(const char*): the node is constructed, ConfiguratorRegister is
\* called with it.
ChannelCtor(t, name) ==
    /\ pc[t] # "crashed"
    /\ todo[t] = <<>>
    /\ ChannelNodeFields[name].life = "none"
    /\ ChannelNodeFields' = [ChannelNodeFields EXCEPT ![name].life = "constructed"]
    /\ todo' = [todo EXCEPT ![t] = ConfiguratorRegisterCSteps(name)]
    /\ UNCHANGED <<ChannelNodeHeadPointer, ChannelNodeHead, registering, pc, linksQuiet>>

\* Channel::~Channel(): ConfiguratorUnregister is called with the node.
ChannelDtor(t, name) ==
    /\ pc[t] # "crashed"
    /\ todo[t] = <<>>
    /\ ChannelNodeFields[name].life = "constructed"
    /\ ChannelNodeFields' = [ChannelNodeFields EXCEPT ![name].life = "destroyed"]
    /\ ChannelNodeHead' = SelectSeq(ChannelNodeHead, LAMBDA n : n.SubsystemName # name)
    /\ todo' = [todo EXCEPT ![t] = ConfiguratorUnregisterCSteps(name)]
    /\ UNCHANGED <<ChannelNodeHeadPointer, registering, pc, linksQuiet>>

\* ConfiguratorRegisterC: if (OutputWorkerInstValid == false) ChannelRegisterNoLock
ConfiguratorRegisterCStep(t) ==
    /\ AtStep(t, "registerC")
    /\ OutputWorkerInstValid = FALSE
    /\ todo' = [todo EXCEPT ![t] = << TagStep("if(ChannelNodeHead)", Head(todo[t]).tag) >>]
    /\ UNCHANGED <<linkVars, ChannelNodeHead, registering, pc, linksQuiet>>

\* ConfiguratorUnregisterC: if (OutputWorkerInstValid == false) ChannelUnregisterNoLock
ConfiguratorUnregisterCStep(t) ==
    /\ AtStep(t, "unregisterC")
    /\ OutputWorkerInstValid = FALSE
    /\ todo' = [todo EXCEPT ![t] = << TagStep("if(node==head)", Head(todo[t]).tag) >>]
    /\ UNCHANGED <<linkVars, ChannelNodeHead, registering, pc, linksQuiet>>

\* ChannelRegisterNoLock: if (ChannelNodeHead)
IfHeadStep(t) ==
    /\ AtStep(t, "if(ChannelNodeHead)")
    /\ registering' = [registering EXCEPT ![t] =
          [ node |-> Head(todo[t]).tag, head |-> ChannelNodeHeadPointer ]]
    /\ todo' = [todo EXCEPT ![t] =
          IF ChannelNodeHeadPointer # "nullptr"
          THEN ChannelRegisterNoLockThen(Head(todo[t]).tag)
          ELSE ChannelRegisterNoLockElse(Head(todo[t]).tag)]
    /\ UNCHANGED <<linkVars, ChannelNodeHead, pc, linksQuiet>>

\* ChannelNodeHead->Prev = channelNode;
HeadPrevStep(t) ==
    \E head \in HeadRead(t) :
        StoreStep(t, "head->Prev=node", head, "Prev", registering[t].node)

\* channelNode->Next = ChannelNodeHead;
NodeNextHeadStep(t) ==
    \E head \in HeadRead(t) :
        StoreStep(t, "node->Next=head", registering[t].node, "Next", head)

\* channelNode->Next = nullptr;
NodeNextNullStep(t) ==
    \E node \in { registering[t].node } :
        StoreStep(t, "node->Next=null", node, "Next", "nullptr")

\* channelNode->Prev = nullptr;
NodePrevNullStep(t) ==
    \E node \in { registering[t].node } :
        StoreStep(t, "node->Prev=null", node, "Prev", "nullptr")

\* ChannelNodeHead = channelNode;
SetHeadStep(t) ==
    /\ AtStep(t, "head=node")
    /\ ChannelNodeHeadPointer' = registering[t].node
    /\ ChannelNodeHead' = RegisteredWith(registering[t].node)
    /\ todo' = Advance(t, 0)
    /\ UNCHANGED <<ChannelNodeFields, registering, pc, linksQuiet>>

\* ChannelUnregisterNoLock: if (channelNode == ChannelNodeHead)
IfNodeIsHeadStep(t) ==
    /\ AtStep(t, "if(node==head)")
    /\ registering' = [registering EXCEPT ![t] =
          [ node |-> Head(todo[t]).tag, head |-> ChannelNodeHeadPointer ]]
    /\ todo' = [todo EXCEPT ![t] =
          IF Head(todo[t]).tag = ChannelNodeHeadPointer
          THEN ChannelUnregisterNoLockThen(Head(todo[t]).tag)
          ELSE ChannelUnregisterNoLockElse(Head(todo[t]).tag)]
    /\ UNCHANGED <<linkVars, ChannelNodeHead, pc, linksQuiet>>

\* ChannelNodeHead = channelNode->Next;
HeadNextStep(t) ==
    /\ AtStep(t, "head=node->Next")
    /\ ChannelNodeHeadPointer' = ChannelNodeFields[registering[t].node].Next
    /\ registering' = [registering EXCEPT ![t].head = ChannelNodeHeadPointer']
    /\ todo' = Advance(t, 0)
    /\ UNCHANGED <<ChannelNodeFields, ChannelNodeHead, pc, linksQuiet>>

\* if (ChannelNodeHead) after the head is written
IfNewHeadStep(t) ==
    /\ AtStep(t, "if(head)")
    /\ \E head \in HeadRead(t) :
          todo' = [todo EXCEPT ![t] =
              IF head # "nullptr"
              THEN << TagStep("head->Prev=null", Head(todo[t]).tag) >>
              ELSE << >>]
    /\ UNCHANGED <<linkVars, ChannelNodeHead, registering, pc, linksQuiet>>

\* ChannelNodeHead->Prev = nullptr;
NewHeadPrevStep(t) ==
    \E head \in HeadRead(t) :
        StoreStep(t, "head->Prev=null", head, "Prev", "nullptr")

\* channelNode->Prev->Next = channelNode->Next;
PrevNextStep(t) ==
    /\ AtStep(t, "prev->Next=next")
    /\ \E node \in { ChannelNodeFields[registering[t].node] } :
          StoreStep(t, "prev->Next=next", node.Prev, "Next", node.Next)

\* if (channelNode->Next)
IfNextStep(t) ==
    /\ AtStep(t, "if(next)")
    /\ todo' = [todo EXCEPT ![t] =
          IF ChannelNodeFields[registering[t].node].Next # "nullptr"
          THEN << TagStep("next->Prev=prev", Head(todo[t]).tag) >>
          ELSE << >>]
    /\ UNCHANGED <<linkVars, ChannelNodeHead, registering, pc, linksQuiet>>

\* channelNode->Next->Prev = channelNode->Prev;
NextPrevStep(t) ==
    /\ AtStep(t, "next->Prev=prev")
    /\ \E node \in { ChannelNodeFields[registering[t].node] } :
          StoreStep(t, "next->Prev=prev", node.Next, "Prev", node.Prev)

InitLinks ==
    /\ ChannelNodeHeadPointer = "nullptr"
    /\ ChannelNodeFields = [name \in LinkNames |-> NoNode]
    /\ NoDebugger
    /\ RmmIdle
    /\ RegistryUnused
    /\ ConfiguratorIdle
    /\ OutputWorkerInstValid = FALSE
    /\ Plugins = {}
    /\ WorkQueue = <<>>
    /\ WorkQueueSize = 0
    /\ WorkQueueOverrun = 0
    /\ WorkQueueLock = "none"
    /\ WorkerWakeEvent = FALSE
    /\ LoggingThread = FALSE
    /\ Terminated = FALSE
    /\ FlushEvent = FALSE
    /\ pc = [t \in Threads |-> "idle"]
    /\ batch = <<>>
    /\ written = <<>>
    /\ fate = <<>>
    /\ sinceDetach = 0
    /\ enqueued = <<>>
    /\ sentinelAt = 0
    /\ stopMark = 0
    /\ dispatchThreads = 0
    /\ startsIgnored = 0
    /\ afterStop = NotObserved

NextLinks ==
    \E t \in Callers :
        \/ \E name \in ChannelsOf(t) : ChannelCtor(t, name)
        \/ \E name \in ChannelsOf(t) : ChannelDtor(t, name)
        \/ ConfiguratorRegisterCStep(t)
        \/ ConfiguratorUnregisterCStep(t)
        \/ IfHeadStep(t)
        \/ HeadPrevStep(t)
        \/ NodeNextHeadStep(t)
        \/ NodeNextNullStep(t)
        \/ NodePrevNullStep(t)
        \/ SetHeadStep(t)
        \/ IfNodeIsHeadStep(t)
        \/ HeadNextStep(t)
        \/ IfNewHeadStep(t)
        \/ NewHeadPrevStep(t)
        \/ PrevNextStep(t)
        \/ IfNextStep(t)
        \/ NextPrevStep(t)

SpecLinks == InitLinks /\ [][NextLinks]_vars

-----------------------------------------------------------------------------
(* Properties of RepeatedMessageManager.                                   *)

C10_PruneBounds ==
    [][ (PollSeq /\ Cardinality(DOMAIN RecentMessageMap) > 2 * recentMessageCount)
            => Cardinality(DOMAIN RecentMessageMap') <= recentMessageCount ]_vars

\* C18: no hash is a key of both the recent-message map and the
\* repeated-message map, after any sequence of HandleMessage and Poll calls.
C18_OneMapPerHash ==
    DOMAIN RecentMessageMap \cap DOMAIN RepeatedMessageMap = {}

\* A hash promoted at time 0 has been logged again after its window: its entry
\* is still in the repeated-message map, untouched, and the hash did not go
\* back to the recent-message map, which holds another hash.
C18_Witness ==
    \E h \in DOMAIN RepeatedMessageMap :
        /\ run[h].occ >= 2
        /\ RepeatedMessageMap[h].lastTimeMs = 0
        /\ ~run[h].inWindow
        /\ h \notin DOMAIN RecentMessageMap
        /\ DOMAIN RecentMessageMap # {}

\* C11, as claimed: a Poll that prunes the recent-message map leaves exactly the
\* recentMessageCount entries with the newest first-seen times: every evicted
\* entry is at most as new as every retained one.
C11_EvictsOldestFirst ==
    [][ (PollSeq /\ Cardinality(DOMAIN RecentMessageMap) > 2 * recentMessageCount)
            => /\ DOMAIN RecentMessageMap' \subseteq DOMAIN RecentMessageMap
               /\ Cardinality(DOMAIN RecentMessageMap') = recentMessageCount
               /\ \A kept \in DOMAIN RecentMessageMap' :
                     /\ RecentMessageMap'[kept] = RecentMessageMap[kept]
                     /\ \A evicted \in DOMAIN RecentMessageMap \ DOMAIN RecentMessageMap' :
                           RecentMessageMap[evicted].timeMs
                               <= RecentMessageMap[kept].timeMs ]_vars

-----------------------------------------------------------------------------
(* Properties of the OutputWorker.                                         *)

RECURSIVE CountSum(_, _, _)
\* The sum of the counts of the records of a kind in a list.
CountSum(messages, kind, i) ==
    IF i > Len(messages) THEN 0
    ELSE (IF messages[i].kind = kind THEN messages[i].count ELSE 0)
             + CountSum(messages, kind, i + 1)

WrittenMessages == [ j \in DOMAIN written |-> written[j].message ]
IsQueued(message) == message.kind # "lost"
\* What the plugins were handed of the records that went through the queue.
WrittenQueued == SelectSeq(written, LAMBDA w : IsQueued(w.message))
\* The Write calls (by number) of a fate among the first n.
Calls(kind, n) == { i \in 1..n : fate[i] = kind }
QueuedMessages == { i \in DOMAIN WorkQueue : WorkQueue[i].kind = "message" }

\* C1. When Flush has returned, every record that was added to the work queue
\* before its sentinel has been handed to every registered plugin, and those
\* records were handed over in the order in which they were queued.
C1_FlushBarrier ==
    pc["flusher"] = "returned" =>
        /\ Len(WrittenQueued) >= sentinelAt
        /\ \A i \in 1..sentinelAt :
              /\ WrittenQueued[i].message = enqueued[i]
              /\ WrittenQueued[i].plugins = Plugins

\* C1, a reached case: Flush returned on a running worker with two records queued
\* before its sentinel, and a record queued after the sentinel is not yet written.
C1_Witness ==
    /\ pc["flusher"] = "returned"
    /\ LoggingThread /\ ~Terminated
    /\ sentinelAt >= 2
    /\ Len(enqueued) > sentinelAt
    /\ Len(WrittenQueued) = sentinelAt

\* C2. When Stop is about to return, the work queue is empty and every record
\* Write queued has been handed to every registered plugin exactly once, in the
\* order of the queue.
C2_StopDrains ==
    pc["controller"] = "return" =>
        /\ WorkQueue = <<>> /\ WorkQueueSize = 0 /\ batch = <<>>
        /\ Len(WrittenQueued) = Len(enqueued)
        /\ \A i \in DOMAIN enqueued :
              /\ WrittenQueued[i].message = enqueued[i]
              /\ WrittenQueued[i].plugins = Plugins
        /\ \A i, j \in DOMAIN written :
              (written[i].message.kind = "message" /\ written[i].message = written[j].message)
                  => i = j

\* C2, a reached case: the dispatch thread was terminated by Stop before it
\* dispatched the records of a full queue, and Stop's own drain wrote them.
C2_Witness ==
    /\ pc["controller"] = "return"
    /\ Terminated
    /\ Cardinality({ j \in DOMAIN written :
                        /\ written[j].thread = "controller"
                        /\ written[j].message.kind = "message" }) >= WorkQueueLimit

\* C3, as claimed: a Flush call that has passed its check that the thread is
\* valid returns.
C3_FlushReturns ==
    (pc["flusher"] = "enqueue") ~> (pc["flusher"] = "returned")

\* C4. Of the Write calls that were not aggregated since the queue was last
\* detached, the first WorkQueueLimit are queued when the queue held nothing
\* else, and every other one is counted in WorkQueueOverrun; every dropped call
\* is counted once, in WorkQueueOverrun or in a lost-messages record; that record
\* is the first of its batch; and WorkQueueOverrun is 0 once the queue is detached
\* for as long as no Write can run.
C4_OverrunAccounting ==
    /\ WorkQueueSize = Len(WorkQueue)
    /\ Cardinality(QueuedMessages) + WorkQueueOverrun = sinceDetach
    /\ Cardinality(QueuedMessages) = Len(WorkQueue)
          => /\ Len(WorkQueue) = Min(sinceDetach, WorkQueueLimit)
             /\ WorkQueueOverrun = Max(0, sinceDetach - WorkQueueLimit)
    /\ Cardinality(Calls("dropped", Len(fate)))
          = WorkQueueOverrun + CountSum(batch, "lost", 1)
              + CountSum(WrittenMessages, "lost", 1)
    /\ \A i \in DOMAIN batch : batch[i].kind = "lost" => i = 1
    /\ (pc["controller"] = "process" /\ pollPc = "dispatch") => WorkQueueOverrun = 0

\* C4, a reached case: WorkQueueLimit + 2 calls since an empty queue was detached,
\* two of them dropped, and then a batch that starts with the record for the two.
C4_Witness ==
    /\ pollPc = "dispatch"
    /\ Len(batch) = WorkQueueLimit + 1
    /\ batch[1] = LostRecord(2)
    /\ \A i \in 2..Len(batch) : batch[i].kind = "message"
    /\ WorkQueueOverrun = 0

C14_FlushIgnored ==
    [][ (FlushCheck /\ ~LoggingThread)
            => /\ pc'["flusher"] = "ignored"
               /\ UNCHANGED <<WorkQueue, WorkQueueSize, WorkQueueOverrun, enqueued,
                              sentinelAt, FlushEvent, WorkerWakeEvent>> ]_vars

\* C14, a reached case: Flush was ignored after a Stop that returned, with
\* written records behind it, and the flusher can call again.
C14_Witness ==
    /\ pc["flusher"] = "ignored"
    /\ pc["controller"] = "idle"
    /\ ~LoggingThread
    /\ WorkQueue = <<>>
    /\ written # <<>>
    /\ ENABLED FlushCheck

\* C15, as claimed: SetGlobalMinimumLogLevel(level) sets the global default to
\* level, sets the level of every registered channel whose user-override flag
\* is false to level, and leaves the level of every channel whose flag is true.
C15_GlobalSparesOverrides ==
    [][ \A level \in ChannelLevels :
          SetGlobalMinimumLogLevel(level)
            => /\ GlobalMinimumLogLevel' = level
               /\ \A i \in DOMAIN ChannelNodeHead :
                     ChannelNodeHead'[i].Level =
                         IF ChannelNodeHead[i].UserOverrodeMinimumOutputLevel
                         THEN ChannelNodeHead[i].Level
                         ELSE level ]_vars

\* C16, as claimed: SetChannel(name, level) sets the level of every registered
\* channel of that name, overridden or not, and marks each user-overridden; and
\* a SetGlobalMinimumLogLevel call leaves every channel whose level SetChannel
\* set last at the level SetChannel gave it.
C16_SetChannelSticks ==
    [][ /\ \A channelName \in ChannelNames, level \in ChannelLevels :
             SetChannel(channelName, level)
               => (\A i \in DOMAIN ChannelNodeHead :
                     (ChannelNodeHead[i].SubsystemName = channelName)
                       => (/\ ChannelNodeHead'[i].Level = level
                           /\ ChannelNodeHead'[i].UserOverrodeMinimumOutputLevel))
        /\ SetGlobalMinimumLogLevelCall
             => (\A i \in DOMAIN ChannelNodeHead :
                   (ChannelNodeHead[i].pinned # "none")
                     => (ChannelNodeHead'[i].Level = ChannelNodeHead[i].pinned)) ]_vars

\* C17: between the locked blocks WorkQueueSize is the number of records in the
\* work queue; every drain sets WorkQueueOverrun to zero, and the only other
\* change of WorkQueueOverrun is a Write that drops its record and adds one.
C17_QueueInvariant ==
    /\ [](WorkQueueSize = Len(WorkQueue))
    /\ [][ /\ ProcessDetach => WorkQueueOverrun' = 0 /\ WorkQueueSize' = 0
           /\ WorkQueueOverrun' # WorkQueueOverrun
                 => \/ ProcessDetach
                    \/ /\ WriteCall
                       /\ WorkQueueOverrun' = WorkQueueOverrun + 1
                       /\ WorkQueue' = WorkQueue ]_vars

\* C17, a reached case: a drain has reset a counter of one lost message, whose
\* record heads the batch, and a record has been queued since.
C17_Witness ==
    /\ pollPc = "dispatch"
    /\ batch # <<>>
    /\ batch[1] = LostRecord(1)
    /\ WorkQueueOverrun = 0
    /\ WorkQueueSize = 1
    /\ Len(WorkQueue) = 1

\* C20: under fair scheduling, every record of a Write call that is in the work
\* queue while the dispatch thread runs and is not terminated is eventually
\* handed to the plugins, whether or not its Write signalled WorkerWakeEvent.
C20_NoLostWakeup ==
    \A id \in 1..MaxWrites :
        ( /\ LoggingThread
          /\ ~Terminated
          /\ \E k \in DOMAIN WorkQueue :
                WorkQueue[k].kind = "message" /\ WorkQueue[k].id = id )
        ~> (\E j \in DOMAIN written :
                written[j].message.kind = "message" /\ written[j].message.id = id)

\* C20, a reached case: the thread waits, the first Write has signalled the
\* event, and a second Write has added its record and returned without a signal.
C20_Witness ==
    /\ LoggingThread
    /\ ~Terminated
    /\ pc["dispatcher"] = "waiton"
    /\ \A t \in Producers : pc[t] = "idle"
    /\ WorkerWakeEvent
    /\ WorkQueueSize = 2
    /\ \A k \in DOMAIN WorkQueue : WorkQueue[k].kind = "message"

\* C19: every summary that Poll emits is appended to the work queue whatever the
\* queue's size, without a change of WorkQueueOverrun, and HandleMessage passes
\* it through: neither map changes.
C19_SummaryNeverDropped ==
    [][ ProcessPrintWrite
            => /\ WorkQueue' = Append(WorkQueue, AggregateRecord(Head(messagesToPrint)))
               /\ WorkQueueSize' = WorkQueueSize + 1
               /\ WorkQueueOverrun' = WorkQueueOverrun
               /\ RecentMessageMap' = RecentMessageMap
               /\ RepeatedMessageMap' = RepeatedMessageMap ]_vars

\* C19, a reached case: a summary queued behind WorkQueueLimit records, with a
\* dropped Write counted and the summary's own entry not back in either map.
C19_Witness ==
    /\ pollPc = "clear"
    /\ WorkQueueSize = WorkQueueLimit + 1
    /\ WorkQueue[Len(WorkQueue)].kind = "aggregate"
    /\ WorkQueueOverrun = 1
    /\ BusyInWrite

\* A repeated-message entry with aggregated occurrences whose window has expired,
\* while the dispatch thread runs.
ExpiredAggregate ==
    /\ LoggingThread /\ ~Terminated
    /\ pc["controller"] = "idle"
    /\ \E h \in DOMAIN RepeatedMessageMap :
          /\ RepeatedMessageMap[h].aggregatedCount > 0
          /\ Expired(RepeatedMessageMap[h])

\* C6, as claimed: the aggregated occurrences of an entry whose window has expired
\* while the worker runs are written to the plugins in a summary.
C6_AggregatesReported ==
    ExpiredAggregate ~>
        (CountSum(WrittenMessages, "aggregate", 1)
            = Cardinality(Calls("aggregated", Len(fate))))

\* C7, as claimed: when Stop is about to return, every Write call made before Stop
\* was called has been written as its own record, or is counted in a written
\* lost-messages record, or is counted in a written summary.
C7_NoSilentLoss ==
    pc["controller"] = "return" =>
        /\ \A i \in Calls("queued", stopMark) :
              \E j \in DOMAIN written :
                  written[j].message.kind = "message" /\ written[j].message.id = i
        /\ Cardinality(Calls("dropped", stopMark)) <= CountSum(WrittenMessages, "lost", 1)
        /\ Cardinality(Calls("aggregated", stopMark))
              <= CountSum(WrittenMessages, "aggregate", 1)

-----------------------------------------------------------------------------
(* Properties of the plugin registry.                                      *)

\* C9. No two registered plugins have the same name; and after AddPlugin calls
\* for a name, with no RemovePlugin for the name or DisableAllPlugins after the
\* last of them, the plugin added last is the one plugin registered under the
\* name, and the one GetPlugin returns for it.
C9_UniqueNames ==
    /\ \A p, q \in Plugins : p.name = q.name => p = q
    /\ \A name \in DOMAIN added :
          added[name].count > 0 =>
              /\ FirstMatches(Plugins, name) = { Plugin(added[name].last) }
              /\ GetPluginResults(Plugins, name) = { Plugin(added[name].last) }
    /\ lastGet.result # 0 => Plugin(lastGet.result).name = lastGet.name

\* C9, a reached case: three AddPlugin calls for one name since it was last
\* removed, the last of them for the second plugin object of that name; GetPlugin
\* returned that object, and a plugin of another name is registered too.
C9_Witness ==
    \E name \in DOMAIN added :
        /\ added[name].count = 3
        /\ added[name].last > Len(PluginNames)
        /\ lastGet = [name |-> name, result |-> added[name].last]
        /\ Cardinality(Plugins) > 1

-----------------------------------------------------------------------------
(* Properties of the dispatch order.                                       *)

\* C21: in every state, what the plugins were handed of the records that went
\* through the queue is a prefix of the records in the order in which they were
\* appended to the queue, each handed to every registered plugin: no record is
\* written twice, none out of order, and none of a later batch before one of an
\* earlier batch, whether the dispatch thread or Stop's final drain writes them.
C21_FifoExactlyOnce ==
    /\ Len(WrittenQueued) <= Len(enqueued)
    /\ \A i \in DOMAIN WrittenQueued :
          /\ WrittenQueued[i].message = enqueued[i]
          /\ WrittenQueued[i].plugins = Plugins

\* C21, a reached case: a batch written by the dispatch thread, then a batch
\* written by Stop's drain, then one written by the thread of a later Start.
C21_Witness ==
    \E i, j, k \in DOMAIN written :
        /\ i < j /\ j < k
        /\ written[i].thread = "dispatcher" /\ written[i].message.kind = "message"
        /\ written[j].thread = "controller" /\ written[j].message.kind = "message"
        /\ written[k].thread = "dispatcher" /\ written[k].message.kind = "message"

-----------------------------------------------------------------------------
(* Properties of the channel registry and the Configurator.                *)

C23_SetPluginRestoresAll ==
    [][ \A plugin \in ConfiguratorPlugins :
          SetPlugin(plugin)
            => \A i \in DOMAIN ChannelNodeHead :
                  ChannelNodeHead'[i].Level =
                      RestoredLevel(plugin, ChannelNodeHead[i].SubsystemName) ]_vars

\* C23, as amended: when SetPlugin returns, the plugin is the Configurator's, the
\* level of every registered channel that is not user-overridden is the level
\* the plugin returns for its name (the global default if the plugin holds none,
\* or is null), and every user-overridden channel has the level it had.
C23_SetPluginRestores ==
    [][ \A plugin \in ConfiguratorPlugins \cup { NoConfiguratorPlugin } :
          SetPlugin(plugin)
            => /\ ConfiguratorPlugin' = plugin
               /\ Len(ChannelNodeHead') = Len(ChannelNodeHead)
               /\ \A i \in DOMAIN ChannelNodeHead :
                     ChannelNodeHead'[i].Level =
                         IF ChannelNodeHead[i].UserOverrodeMinimumOutputLevel
                         THEN ChannelNodeHead[i].Level
                         ELSE RestoredLevel(plugin, ChannelNodeHead[i].SubsystemName) ]_vars

\* C23, a reached case: a plugin is attached that holds a level other than the
\* global default for a channel that is not user-overridden, which has that
\* level, and a user-overridden channel has another level than the plugin
\* holds for its name.
C23_Witness ==
    /\ ConfiguratorPlugin.attached
    /\ \E i \in DOMAIN ChannelNodeHead :
          /\ ChannelNodeHead[i].UserOverrodeMinimumOutputLevel = FALSE
          /\ ChannelNodeHead[i].Level # GlobalMinimumLogLevel
          /\ ChannelNodeHead[i].Level =
                 ConfiguratorPlugin.levels[ChannelNodeHead[i].SubsystemName]
    /\ \E i \in DOMAIN ChannelNodeHead :
          /\ ChannelNodeHead[i].UserOverrodeMinimumOutputLevel
          /\ ChannelNodeHead[i].Level #
                 RestoredLevel(ConfiguratorPlugin, ChannelNodeHead[i].SubsystemName)

\* C24: while a plugin is attached, each call of Channel::SetMinimumOutputLevel
\* and each call of Configurator::SetChannel that changes the level of a channel
\* saves the new level with the plugin under the channel's name.
C24_LevelChangeSaved ==
    [][ ConfiguratorPlugin.attached =>
          /\ \A i \in DOMAIN ChannelNodeHead, newLevel \in ChannelLevels :
                SetMinimumOutputLevel(i, newLevel)
                  => ConfiguratorPlugin'.levels[ChannelNodeHead[i].SubsystemName]
                         = newLevel
          /\ \A channelName \in ChannelNames, level \in ChannelLevels :
                ( /\ SetChannel(channelName, level)
                  /\ \E i \in DOMAIN ChannelNodeHead :
                        /\ ChannelNodeHead[i].SubsystemName = channelName
                        /\ ChannelNodeHead[i].Level # level )
                  => ConfiguratorPlugin'.levels[channelName] = level ]_vars

\* The part of C24 that is about Channel::SetMinimumOutputLevel alone.
C24_SetMinimumOutputLevelSaved ==
    [][ ConfiguratorPlugin.attached =>
          \A i \in DOMAIN ChannelNodeHead, newLevel \in ChannelLevels :
              SetMinimumOutputLevel(i, newLevel)
                => ConfiguratorPlugin'.levels[ChannelNodeHead[i].SubsystemName]
                       = newLevel ]_vars

-----------------------------------------------------------------------------
(* Properties of a Start that fails.                                       *)

\* The worker is inert: the thread handle is not valid and no dispatch thread
\* runs.
WorkerIsInert ==
    /\ ~LoggingThread
    /\ dispatchThreads = 0
    /\ pc["dispatcher"] = "idle"

\* C25: a Start that fails, at WorkerTerminator.Initialize or at CreateThread,
\* leaves the worker inert; while the worker is inert, a Flush call returns at
\* its test of the thread without queueing anything, and Start, called by a
\* thread that is in neither Start nor Stop, is not taken as already started:
\* it tries again, and can create the thread.
C25_FailedStartInertRetryable ==
    /\ [][ (StartThreadFails \/ StartTerminatorFails) => WorkerIsInert' ]_vars
    /\ [][ (WorkerIsInert /\ FlushCheck)
             => /\ pc'["flusher"] = "ignored"
                /\ WorkQueue' = WorkQueue
                /\ WorkerIsInert' ]_vars
    /\ [](WorkerIsInert /\ pc["controller"] = "idle"
             => /\ ENABLED Start
                /\ ENABLED StartThreadFails
                /\ ENABLED StartTerminatorFails
                /\ ~ENABLED StartRunning)
    /\ [][ Start => LoggingThread' /\ dispatchThreads' = 1 ]_vars

\* C25, a reached case: a thread has run and was stopped, a Start after that
\* Stop has failed (the terminator is reset and no thread is valid), Flush was
\* called since and returned at its test, and Start can be called again.
C25_Witness ==
    /\ \E i \in DOMAIN written : written[i].thread = "dispatcher"
    /\ WorkerIsInert
    /\ ~Terminated
    /\ pc["flusher"] = "ignored"
    /\ pc["controller"] = "idle"
    /\ ENABLED Start

-----------------------------------------------------------------------------
(* Properties of the locks.                                                *)

\* Thread t is in the loop that hands the records to the plugins, or holds
\* PluginsLock, while it holds WorkQueueLock.
SinkUnderQueueLock(t) ==
    /\ "WorkQueueLock" \in HeldBy(t)
    /\ "PluginsLock" \in HeldBy(t) \/ AtStep(t, "dispatch")

\* C26, as claimed: no thread holds PluginsLock, or hands a record to a plugin,
\* while it holds WorkQueueLock, Stop's caller in its final drain included.
C26_NoSinkUnderQueueLock == \A t \in Threads : ~SinkUnderQueueLock(t)

\* C26, as amended: the dispatch thread and the callers of Write, Flush,
\* AddPlugin and RemovePlugin never hold PluginsLock, or hand a record to a
\* plugin, while they hold WorkQueueLock; the caller of Stop does, in its final
\* drain, holding StartStopLock, when no dispatch thread is left.
C26_SinkUnderQueueLockInStopOnly ==
    \A t \in Threads :
        SinkUnderQueueLock(t)
          => /\ t = "controller"
             /\ held[t][1] = "StartStopLock"
             /\ ~LoggingThread
             /\ pc["dispatcher"] = "idle"
             /\ todo["dispatcher"] = <<>>

\* C26, a reached case: Stop's caller hands a record to the plugins holding
\* WorkQueueLock and PluginsLock, while a caller of Write waits for WorkQueueLock.
C26_Witness ==
    /\ SinkUnderQueueLock("controller")
    /\ AtStep("controller", "dispatch")
    /\ "PluginsLock" \in HeldBy("controller")
    /\ batch # <<>>
    /\ AtStep("producer", "acquire")
    /\ Head(todo["producer"]).lock = "WorkQueueLock"

\* The order in which the locks are taken: a thread that holds a lock takes
\* only locks of the same or a higher rank.
LockRank(lock) ==
    CASE lock = "StartStopLock" -> 1
      [] lock = "WorkQueueLock" -> 2
      [] lock = "Mutex" -> 3
      [] lock = "PluginsLock" -> 4
      [] lock = "ChannelsLock" -> 5

\* Thread t cannot take its next step before thread u has taken steps: t is at
\* a lock that u holds, or waits for the dispatch thread to end.
WaitsFor(t, u) ==
    /\ t # u
    /\ \/ AtStep(t, "acquire") /\ Head(todo[t]).lock \in HeldBy(u)
       \/ AtStep(t, "join") /\ u = "dispatcher" /\ pc["dispatcher"] # "exited"

\* C27: each thread holds its locks in the order of their ranks, and no threads
\* wait for each other in a circle.
C27_NoDeadlock ==
    /\ \A t \in Threads : \A i, j \in DOMAIN held[t] :
          i < j => LockRank(held[t][i]) <= LockRank(held[t][j])
    /\ \A waiting \in SUBSET Threads :
          waiting # {} => \E t \in waiting : \A u \in waiting : ~WaitsFor(t, u)

\* C27, a reached case: Stop's caller holds StartStopLock and WorkQueueLock and,
\* in HandleMessage for a summary, the Mutex; a caller of Write waits for
\* WorkQueueLock and another thread is inside the channels lock.
C27_Witness ==
    /\ held["controller"] = << "StartStopLock", "WorkQueueLock", "WorkQueueLock", "Mutex" >>
    /\ WaitsFor("producer", "controller")
    /\ "ChannelsLock" \in HeldBy("flusher")

\* C28: the thread in Poll does not hold the Mutex when it calls Write for a
\* summary nor when that Write queues it; the summaries a Poll call has queued
\* are the first of those it collected, in the order collected, and all of them
\* when Poll has returned.
C28_PollPrintsUnlockedInOrder ==
    /\ \A t \in Threads :
          \/ AtStep(t, "print")
          \/ AtStep(t, "enqueue") /\ Head(todo[t]).tag \in SummaryTags
          => "Mutex" \notin HeldBy(t)
    /\ Len(emitted) <= Len(messagesToPrint)
    /\ \A i \in DOMAIN emitted : emitted[i] = messagesToPrint[i]
    /\ \A t \in Threads : AtStep(t, "detach") => emitted = messagesToPrint

\* C28, a reached case: the dispatch thread has collected two entries under the
\* Mutex and queued the summaries of both; it is back from the second Write and
\* holds no lock.
C28_Witness ==
    /\ AtStep("dispatcher", "printed")
    /\ held["dispatcher"] = <<>>
    /\ messagesToPrint = << "s2", "s1" >>
    /\ emitted = messagesToPrint
    /\ \E i, j \in DOMAIN WorkQueue :
          i < j /\ WorkQueue[i] = "s2" /\ WorkQueue[j] = "s1"
    /\ Len(todo["dispatcher"]) < Len(ProcessQueuedMessagesSteps(<<>>)) + 2

-----------------------------------------------------------------------------
(* Properties of the guard of the summaries.                               *)

\* C29: BusyInWrite is clear whenever the producer, in HandleMessage, has taken
\* the Mutex and tests the flag: no HandleMessage call of the producer returns
\* at the test of BusyInWrite.
C29_ProducerNeverShortCircuited ==
    [][ AcquireStep("producer") /\ Head(todo["producer"]).lock = "Mutex"
          => ~BusyInWrite ]_vars

-----------------------------------------------------------------------------
(* Properties of the accesses to the channel registry.                     *)

\* C30: no two threads are reading or writing the links of the registry at the
\* same time.
C30_RegistryAccessExclusive ==
    \A t, u \in Threads : t # u => ~(InRegistry(t) /\ InRegistry(u))

-----------------------------------------------------------------------------
(* Properties of the flush at the cap.                                     *)

\* C31. A Poll that finds an entry not expired with its aggregated count at or
\* above the cap collects exactly one summary for it, a copy of the entry with the
\* count at that moment, keeps the entry, adds the count to its printed count and
\* resets its aggregated count to 0; the Write of a collected summary carries the
\* count of the copy and is passed; and the counts of the summaries collected for
\* an entry, with the count the entry still holds, add up to the occurrences that
\* were classified as aggregated: to exactly their number once the entry is erased.
C31_CapFlush ==
    /\ [][ RmmPollCollect =>
             \A h \in PollCapped(RepeatedMessageMap) :
                 LET repeatedMessage == RepeatedMessageMap[h] IN
                 /\ Cardinality({ i \in DOMAIN messagesToPrint' :
                                     messagesToPrint'[i] = repeatedMessage }) = 1
                 /\ h \in DOMAIN RepeatedMessageMap'
                 /\ RepeatedMessageMap'[h] =
                        [repeatedMessage EXCEPT
                            !.printedCount = @ + repeatedMessage.aggregatedCount,
                            !.aggregatedCount = 0]
                 /\ run'[h].summ = run[h].summ + repeatedMessage.aggregatedCount
                 /\ run'[h].nsumm = run[h].nsumm + 1 ]_vars
    /\ [][ RmmPrintWrite =>
             /\ Len(emitted') = Len(emitted) + 1
             /\ emitted'[Len(emitted')].text.prefix[2]
                    = Head(messagesToPrint).aggregatedCount
             /\ emitted'[Len(emitted')].result = "Passed" ]_vars
    /\ [](\A h \in DOMAIN run :
             /\ (h \in DOMAIN RepeatedMessageMap /\ ~run[h].closed)
                   => run[h].agg = run[h].summ + RepeatedMessageMap[h].aggregatedCount
             /\ run[h].closed => run[h].summ = run[h].agg)

\* C31, a reached case: an entry flushed at the cap while its window was open,
\* its summary written with the count of the cap, the entry kept with the count
\* rolled into its printed count and one more occurrence aggregated since.
C31_Witness ==
    \E h \in DOMAIN RepeatedMessageMap :
        /\ ~run[h].closed /\ run[h].nsumm = 1
        /\ run[h].summ = maxDeferredMessages
        /\ RepeatedMessageMap[h].printedCount = printedRepeatCount + maxDeferredMessages
        /\ RepeatedMessageMap[h].aggregatedCount = 1
        /\ pollPc = "idle"
        /\ Len(emitted) = 1
        /\ emitted[1].text.prefix[2] = maxDeferredMessages

-----------------------------------------------------------------------------
(* Properties of the stale entries.                                        *)

\* C32. A HandleMessage call that finds an entry of the repeated-message map
\* whose last occurrence is not within the aggregation window (the window's
\* length or more ago) returns Passed and leaves the entry, the rest of the
\* repeated-message map and the recent-message map as they were; and no entry
\* leaves the repeated-message map but in Poll's loop.
C32_StaleEntryLeftAlone ==
    /\ [][ \A subsystemName \in {<<75>>}, messageLogLevel \in Levels, stream \in RmmTexts :
             ( /\ RmmHandleMessage(subsystemName, messageLogLevel, stream, MaxOccurrences)
               /\ Hash(stream) \in DOMAIN RepeatedMessageMap
               /\ now - RepeatedMessageMap[Hash(stream)].lastTimeMs
                      >= maxDeferrableDetectionTimeMs )
             => /\ lastResult'.result = "Passed"
                /\ RepeatedMessageMap' = RepeatedMessageMap
                /\ RecentMessageMap' = RecentMessageMap ]_vars
    /\ [][ ~(DOMAIN RepeatedMessageMap \subseteq DOMAIN RepeatedMessageMap')
             => RmmPollCollect ]_vars

\* C32, a reached case: an entry with an aggregated occurrence not yet reported,
\* every occurrence of which came within the window, has been logged again the
\* window's length or more after its last occurrence: the call passed the
\* message, the entry holds the time and the counts it had.
C32_Witness ==
    \E h \in DOMAIN RepeatedMessageMap :
        /\ RepeatedMessageMap[h].lastTimeMs < maxDeferrableDetectionTimeMs
        /\ now - RepeatedMessageMap[h].lastTimeMs >= maxDeferrableDetectionTimeMs
        /\ RepeatedMessageMap[h].printedCount = printedRepeatCount
        /\ RepeatedMessageMap[h].aggregatedCount = 1
        /\ run[h].occ = printedRepeatCount + 3
        /\ ~run[h].inWindow
        /\ lastResult.result = "Passed"

-----------------------------------------------------------------------------
(* Properties of the two tests of the window.                              *)

\* C33, as claimed: whenever an entry is in the repeated-message map (and no
\* summary is being written), a HandleMessage call for its message leaves the
\* entry untouched, as outside the window, exactly when a Poll at the same time
\* erases the entry, as expired.
C33_WindowTestsAgree ==
    \A stream \in RmmTexts :
        LET h == Hash(stream)
            hm == HandleMessage(<<75>>, "Info", stream)
        IN  (~BusyInWrite /\ h \in DOMAIN RepeatedMessageMap)
                => ( (hm.repeated = RepeatedMessageMap)
                        <=> (h \in PollErased(RepeatedMessageMap)) )

-----------------------------------------------------------------------------
(* Properties of the flush records.                                        *)

\* C34. No record handed to the plugins is a flush record; the round of the
\* dispatch loop that meets a flush record hands nothing to the plugins and
\* signals the record's event, which was not signalled before; and the record is
\* met once: at most one flush record of the waiting Flush call is in the queue
\* and the batch together, and the round takes it out of the batch.
C34_SentinelNotRendered ==
    /\ [](\A i \in DOMAIN written : written[i].message.kind # "flush")
    /\ [](Cardinality({ i \in DOMAIN (WorkQueue \o batch) :
                           (WorkQueue \o batch)[i].kind = "flush" }) <= 1)
    /\ [][ (ProcessDispatch /\ Head(batch).kind = "flush")
             => /\ written' = written
                /\ ~FlushEvent /\ FlushEvent'
                /\ \A i \in DOMAIN batch' : batch'[i].kind # "flush"
                /\ \A i \in DOMAIN WorkQueue' : WorkQueue'[i].kind # "flush" ]_vars

\* C34, a reached case: the flush record of a waiting Flush call was met in the
\* middle of a batch: the records before it were handed to the plugins, its event
\* is signalled, a message queued after it is the next of the batch.
C34_Witness ==
    /\ pc["flusher"] = "wait"
    /\ FlushEvent
    /\ sentinelAt >= 1
    /\ Len(written) >= sentinelAt
    /\ batch # <<>>
    /\ Head(batch).kind = "message"

-----------------------------------------------------------------------------
(* Properties of Write's return and of the lines for the debugger.         *)

\* The lines of the debugger stream that are of Write call number id.
DbgViewLinesOf(id) == { i \in DOMAIN DbgViewLog : DbgViewLog[i].id = id }

\* The Write calls of the producer that have returned.
ReturnedWrites ==
    { id \in DOMAIN fate : id < Len(fate) \/ todo["producer"] = <<>> }

\* C35. A Write call that HandleMessage classifies as aggregated returns from its
\* locked block: the queue, the size counter and the overrun counter are as they
\* were, the wake event is not signalled, nothing is handed to the plugins and
\* nothing is written to the debugger stream, in that step or later for that call.
C35_AggregatedWriteNoEffect ==
    /\ [][ \A stream \in WorkerTexts, relogged \in BOOLEAN, option \in WriteOptions :
             ( /\ WriteLocked("producer", stream, relogged, option)
               /\ HandleMessage(<<75>>, "Info", stream).result = "Aggregated" )
             => /\ todo'["producer"] = <<>>
                /\ UNCHANGED <<WorkQueue, WorkQueueSize, WorkQueueOverrun,
                               WorkerWakeEvent, batch, written, DbgViewLog>> ]_vars
    /\ [](\A id \in DOMAIN fate :
             fate[id].fate = "aggregated" => DbgViewLinesOf(id) = {})

\* C35, a reached case: under a debugger, the last Write call, not a re-log, was
\* aggregated and has returned; the records of the calls before it are still in
\* the queue, the thread has taken the wake event and it stays unsignalled, and
\* the debugger stream holds the lines of the earlier calls only.
C35_Witness ==
    /\ IsInDebugger
    /\ fate # <<>>
    /\ fate[Len(fate)].fate = "aggregated"
    /\ ~fate[Len(fate)].relogged
    /\ todo["producer"] = <<>>
    /\ WorkQueue # <<>>
    /\ ~WorkerWakeEvent
    /\ DbgViewLog # <<>>

\* C39, as claimed: of the Write calls that have returned, exactly those made
\* under a debugger with relogged = false whose record was queued have a line,
\* one, in the debugger stream: a call whose record was dropped has none.
C39_DebuggerLineIffQueued ==
    \A id \in ReturnedWrites :
        Cardinality(DbgViewLinesOf(id)) =
            IF IsInDebugger /\ ~fate[id].relogged /\ fate[id].fate = "queued"
            THEN 1 ELSE 0

\* C39, as amended: of the Write calls that have returned, exactly those made
\* under a debugger with relogged = false that were not aggregated have a line,
\* one, in the debugger stream, with the stream of the call: those whose record
\* was queued and those whose record was dropped on overrun alike.
C39_DebuggerLineUnlessAggregated ==
    \A id \in ReturnedWrites :
        /\ Cardinality(DbgViewLinesOf(id)) =
              IF IsInDebugger /\ ~fate[id].relogged /\ fate[id].fate # "aggregated"
              THEN 1 ELSE 0
        /\ \A i \in DbgViewLinesOf(id) : DbgViewLog[i].stream = fate[id].stream

\* C39, a reached case: under a debugger, three Write calls have returned: one
\* with relogged = true whose record was queued and has no line, one with
\* relogged = false whose record was queued and has its line, and one with
\* relogged = false whose record was dropped on overrun and has its line too.
C39_Witness ==
    /\ IsInDebugger
    /\ \E a, b, c \in ReturnedWrites :
          /\ fate[a].fate = "queued" /\ fate[a].relogged
          /\ DbgViewLinesOf(a) = {}
          /\ fate[b].fate = "queued" /\ ~fate[b].relogged
          /\ Cardinality(DbgViewLinesOf(b)) = 1
          /\ fate[c].fate = "dropped" /\ ~fate[c].relogged
          /\ Cardinality(DbgViewLinesOf(c)) = 1

-----------------------------------------------------------------------------
(* Properties of the count of dropped records.                             *)

\* C36. Whenever WorkQueueOverrun is not 0 the work queue holds a record (as many
\* as the limit, or more); so a drain that finds the counter at a count that is
\* not 0 does not take the return for an empty list: it resets the counter and
\* goes on to the dispatch loop with a batch whose first record is the
\* lost-messages record with that count; and every record that is first in the
\* batch of the dispatch loop is handed to the plugins by the next round.
C36_DropCountReported ==
    /\ [](WorkQueueOverrun > 0
             => WorkQueue # <<>> /\ WorkQueueSize >= WorkQueueLimit)
    /\ [][ (ProcessDetach /\ WorkQueueOverrun > 0)
             => /\ WorkQueueOverrun' = 0
                /\ pollPc' = "dispatch"
                /\ batch' # <<>>
                /\ Head(batch') = LostRecord(WorkQueueOverrun) ]_vars
    /\ [][ (ProcessDispatch /\ Head(batch).kind = "lost")
             => /\ Len(written') = Len(written) + 1
                /\ written'[Len(written')].message = Head(batch) ]_vars

\* C36, a reached case: Stop was called with records dropped and not yet
\* reported; its final drain has reset the counter and handed the lost-messages
\* record with the count to the plugins, before the records of the queue.
C36_Witness ==
    /\ pc["controller"] = "process"
    /\ pollPc = "dispatch"
    /\ WorkQueueOverrun = 0
    /\ written # <<>>
    /\ written[Len(written)].message.kind = "lost"
    /\ written[Len(written)].message.count >= 1
    /\ written[Len(written)].thread = "controller"
    /\ batch # <<>>

-----------------------------------------------------------------------------
(* Properties of the links of the channel registry.                        *)

\* The nodes met from the pointer by following Next, at most n of them.
RECURSIVE NodesFrom(_, _)
NodesFrom(pointer, n) ==
    IF pointer \notin LinkNames \/ n = 0
    THEN << >>
    ELSE << pointer >> \o NodesFrom(ChannelNodeFields[pointer].Next, n - 1)

\* The registry as a walk from ChannelNodeHead finds it.
RegistryList == NodesFrom(ChannelNodeHeadPointer, Cardinality(LinkNames) + 1)

\* No thread is in a call of the registry, and the process has not ended.
LinksAtRest == \A t \in Threads : todo[t] = << >> /\ pc[t] # "crashed"

\* C37: whenever no registration or unregistration is running, the registry is a
\* well-formed doubly-linked list of exactly the channels that are registered and
\* not unregistered, the newest first: the head's Prev is null, and the Prev of
\* the successor of every node of the list is that node.
C37_RegistryWellFormed ==
    LinksAtRest =>
        /\ RegistryList = [i \in DOMAIN ChannelNodeHead |-> ChannelNodeHead[i].SubsystemName]
        /\ ChannelNodeHeadPointer \in LinkNames
              => ChannelNodeFields[ChannelNodeHeadPointer].Prev = "nullptr"
        /\ \A i \in DOMAIN RegistryList :
              ChannelNodeFields[RegistryList[i]].Next \in LinkNames
                  => ChannelNodeFields[ChannelNodeFields[RegistryList[i]].Next].Prev
                        = RegistryList[i]

-----------------------------------------------------------------------------
(* Properties of the removal of a subsystem exception.                     *)

\* C38, as claimed: after RemoveRepeatedMessageSubsytemException(subsystemName),
\* called for a subsystem that AddRepeatedMessageSubsystemException had put in
\* the subsystem exception set, the hash of the subsystem is not in that set, and
\* the message exception set is as it was.
C38_RemoveUndoesAdd ==
    [][ \A subsystemName \in ExceptionSubsystems :
            ( /\ Hash(subsystemName) \in RepeatedMessageSubsystemExceptionSet
              /\ RemoveRepeatedMessageSubsytemException(subsystemName) )
                => /\ Hash(subsystemName) \notin RepeatedMessageSubsystemExceptionSet'
                   /\ RepeatedMessageExceptionSet' = RepeatedMessageExceptionSet ]_vars

====
